---- MODULE Spec2Model ----
(***************************************************************************)
(* netex-parse: the pipeline of main.rs `parse` and graph.rs               *)
(* `Graph::from_data` as a state machine.                                  *)
(*                                                                         *)
(* Numbers.  Rust indices are 0-based and are kept 0-based here; At(s, i)  *)
(* reads a Vec.  Coordinates (f32 degrees in the source) are points of an  *)
(* integer grid of 10 m cells laid over the map, x growing with longitude  *)
(* and y with latitude, with its origin at long 5.5 / lat 47.0; distances  *)
(* are Euclidean on that grid and are carried SQUARED (grid cells^2) so    *)
(* that every comparison the code makes is exact integer arithmetic.       *)
(* Hashed u64 handles are small naturals.                                  *)
(***************************************************************************)
EXTENDS Integers, Sequences, FiniteSets, Bags, TLC

VARIABLES
    text,            \* parser.rs: the text handed to a codec, as bytes
    decoded,         \* parser.rs: what the codec returned for it
    file,            \* main.rs dump_binary: the bytes of graph.bin
    documents,       \* main.rs `documents`, each with the text the archive holds
    data,            \* main.rs `data` / graph.rs `data: &[NetexData]`
    walk_seconds,    \* graph.rs `walk_seconds: &[WalkEdge]`
    pc,              \* position in parse / Graph::from_data
    nodes_by_name,   \* Nodes::from_data: buckets not yet clustered
    name,            \* Nodes::from_data: short name of the bucket in `tree`
    tree,            \* Nodes::from_data: contents of the R-tree, in tree order
    nodes,           \* Nodes.vec
    ref_map,         \* Nodes.ref_map (ref_to_node_idx)
    id_map,          \* Nodes.id_map
    clusters,        \* history: the `local` vector each node was made from
    parts,           \* Graph::from_data: edge maps not yet combined by `reduce`
    edges,           \* Graph::from_data `edges`
    walk_idx,        \* Graph::from_data: walk entries already applied
    unfiltered,      \* history: `edges` as the speed filter found it
    unmapped,        \* history: `edges` as the period remap found it
    graph            \* the Graph returned

nodeVars == <<nodes_by_name, name, tree, nodes, ref_map, id_map, clusters>>

edgeVars == <<parts, edges, walk_idx, unfiltered, unmapped, graph>>

ioVars == <<text, decoded, file>>

vars == <<ioVars, documents, data, walk_seconds, pc, nodeVars, edgeVars>>

----------------------------------------------------------------------------
(* Generic helpers *)

At(s, i) == s[i + 1]

Min(a, b) == IF a < b THEN a ELSE b

\* u16 arithmetic that wraps
U16(x) == x % 65536

Range(s) == {s[i] : i \in DOMAIN s}

RECURSIVE SeqsUpTo(_, _)
SeqsUpTo(S, n) ==
    IF n = 0 THEN {<<>>}
    ELSE LET shorter == SeqsUpTo(S, n - 1)
         IN  shorter \cup {Append(s, x) : s \in {t \in shorter : Len(t) = n - 1}, x \in S}

\* the sequences of at most n distinct elements of S
DistinctSeqsUpTo(S, n) ==
    {s \in SeqsUpTo(S, n) : \A i, j \in DOMAIN s : s[i] = s[j] => i = j}

\* a map (HashMap) with one entry written, as HashMap::insert does
Insert(m, k, v) == [x \in DOMAIN m \cup {k} |-> IF x = k THEN v ELSE m[x]]

EmptyMap == [x \in {} |-> 0]

RECURSIVE ISqrt(_)
ISqrt(n) ==
    IF n < 2 THEN n
    ELSE LET s == 2 * ISqrt(n \div 4)
         IN  IF (s + 1) * (s + 1) <= n THEN s + 1 ELSE s

RECURSIVE Xor(_, _)
Xor(a, b) ==
    IF a = 0 THEN b
    ELSE IF b = 0 THEN a
    ELSE (((a % 2) + (b % 2)) % 2) + 2 * Xor(a \div 2, b \div 2)

----------------------------------------------------------------------------
(* parser.rs records *)

ScheduledStopPoint(id, short_name, long, lat) ==
    [id |-> id, short_name |-> short_name, long |-> long, lat |-> lat]

StopPointInJourneyPattern(id, scheduled_stop_point) ==
    [id |-> id, scheduled_stop_point |-> scheduled_stop_point]

ServiceJourneyPattern(id, line, stops) == [id |-> id, line |-> line, stops |-> stops]

TimetabledPassingTime(ref, arrival, departure) ==
    [stop_point_in_journey_pattern |-> ref, arrival |-> arrival, departure |-> departure]

ServiceJourney(pattern_ref, day_type, transport_mode, passing_times) ==
    [pattern_ref |-> pattern_ref, day_type |-> day_type,
     transport_mode |-> transport_mode, passing_times |-> passing_times]

UicOperatingPeriod(id, from, to, valid_day_bits) ==
    [id |-> id, from |-> from, to |-> to, valid_day_bits |-> valid_day_bits]

DayTypeAssignment(day_type, operating_period, is_available) ==
    [day_type |-> day_type, operating_period |-> operating_period,
     is_available |-> is_available]

Line(id, short_name, authority) ==
    [id |-> id, short_name |-> short_name, authority |-> authority]

Authority(id, short_name) == [id |-> id, short_name |-> short_name]

NetexData(stops, patterns, journeys, periods, dtas, lines, authorities) ==
    [scheduled_stop_points |-> stops,
     service_journey_patterns |-> patterns,
     service_journeys |-> journeys,
     operating_periods |-> periods,
     day_type_assignments |-> dtas,
     lines |-> lines,
     authorities |-> authorities]

----------------------------------------------------------------------------
(* parser.rs codecs *)

ParseMinutesOfFirstFour(bytes) ==
    (At(bytes, 0) - 48) * 600 + (At(bytes, 1) - 48) * 60
       + (At(bytes, 2) - 48) * 10 + (At(bytes, 3) - 48)

\* parse_minutes over the bytes of the text; u16 arithmetic that wraps
parse_minutes(bytes) ==
    LET ASCII_ZERO == 48
        d(i) == U16(At(bytes, i) - ASCII_ZERO)
    IN  U16(U16(U16(U16(d(0) * 600) + U16(d(1) * 60)) + U16(d(3) * 10)) + d(4))

\* the bytes of the text "HH:MM"
ClockText(hh, mm) ==
    <<48 + (hh \div 10), 48 + (hh % 10), 58, 48 + (mm \div 10), 48 + (mm % 10)>>

Clock(hh, mm) == parse_minutes(ClockText(hh, mm))

\* u8 arithmetic that wraps
U8(x) == x % 256

\* the bitwise or of two naturals
RECURSIVE BitOr(_, _)
BitOr(a, b) ==
    IF a = 0 THEN b
    ELSE IF b = 0 THEN a
    ELSE (IF (a % 2) + (b % 2) > 0 THEN 1 ELSE 0) + 2 * BitOr(a \div 2, b \div 2)

ParseDayBitGroupMsbFirst(value) ==
    LET bit(i) == U8(U8(At(value, i) - 48) * 2 ^ (7 - i))
    IN  bit(0) + bit(1) + bit(2) + bit(3) + bit(4) + bit(5) + bit(6) + bit(7)

\* parse_day_bit_group from the i-th byte of the group on
RECURSIVE DayBitGroupFrom(_, _, _)
DayBitGroupFrom(value, i, result) ==
    IF i = 8 THEN result
    ELSE DayBitGroupFrom(value, i + 1,
                         BitOr(result, U8(U8(At(value, i) - 48) * 2 ^ i)))

parse_day_bit_group(value) == DayBitGroupFrom(value, 0, 0)

\* parse_day_bits: the text is padded with '0' to whole groups of 8 bytes
parse_day_bits(value) ==
    LET pad_len == 8 - (Len(value) % 8)
        padded  == IF pad_len # 8 THEN value \o [i \in 1..pad_len |-> 48] ELSE value
    IN  [k \in 1..(Len(padded) \div 8) |->
            parse_day_bit_group(SubSeq(padded, 8 * (k - 1) + 1, 8 * k))]

\* no text is with a codec
NoText == [codec |-> "none", bytes |-> <<>>]

----------------------------------------------------------------------------
(* graph.rs records *)

Indices(node, d, stop) == [node |-> node, data |-> d, stop |-> stop]

Node(id, short_name, long, lat) ==
    [id |-> id, short_name |-> short_name, long |-> long, lat |-> lat]

\* `from` is history: the (document, index) of the ServiceJourney that emitted
\* the record; the source's Journey has no such field
Journey(departure, arrival, transport_mode, operating_period, line, controller, from) ==
    [departure |-> departure, arrival |-> arrival, transport_mode |-> transport_mode,
     operating_period |-> operating_period, line |-> line, controller |-> controller,
     from |-> from]

\* valid_day_bits, the base64 text of valid_day, is left out
OperatingPeriod(from, to, valid_day) == [from |-> from, to |-> to, valid_day |-> valid_day]

Timetable(journeys, periods) == [journeys |-> journeys, periods |-> periods]

Edge(start_node, end_node, timetable, walk) ==
    [start_node |-> start_node, end_node |-> end_node, timetable |-> timetable,
     walk_seconds |-> walk]

WalkEdge(start, end, duration) == [start |-> start, end |-> end, duration |-> duration]

StopAt(d, indices) == At(At(d, indices.data).scheduled_stop_points, indices.stop)

----------------------------------------------------------------------------
(* main.rs parse: the extraction of the documents *)

\* an entry of the archive: a directory or a file.  `content` is what the
\* text holds; `defects` names what is malformed in it: "xml" a syntax
\* error, "coordinate" a Longitude or Latitude that is no number,
\* "is_available" an isAvailable that is no boolean, "journey" a
\* ServiceJourney without DayTypeRef, TransportMode, ServiceJourneyPatternRef
\* or passingTimes
Document(is_dir, defects, content) ==
    [is_dir |-> is_dir, defects |-> defects, content |-> content]

DefaultNetexData == NetexData(<<>>, <<>>, <<>>, <<>>, <<>>, <<>>, <<>>)

\* NetexData::from_xml, its steps in order: roxmltree parses the text, then
\* the stops, the patterns, the journeys, the periods, the assignments, the
\* lines and the authorities are read.  `?` returns the error, `unwrap` and
\* `expect` panic.
from_xml(doc) ==
    IF "xml" \in doc.defects THEN [outcome |-> "err", data |-> DefaultNetexData]
    ELSE IF "coordinate" \in doc.defects
    THEN [outcome |-> "err", data |-> DefaultNetexData]
    ELSE IF "journey" \in doc.defects
    THEN [outcome |-> "panic", data |-> DefaultNetexData]
    ELSE IF "is_available" \in doc.defects
    THEN [outcome |-> "err", data |-> DefaultNetexData]
    ELSE [outcome |-> "ok", data |-> doc.content]

\* the closure given to `map`: nothing for a directory, else
\* from_xml(..).unwrap_or_default()
ExtractDocument(doc) ==
    IF doc.is_dir THEN <<>>
    ELSE IF from_xml(doc).outcome = "ok" THEN << from_xml(doc).data >>
    ELSE << DefaultNetexData >>

ExtractPanics(doc) == ~doc.is_dir /\ from_xml(doc).outcome = "panic"

\* the `reduce` that extends the accumulator, over the first k documents
RECURSIVE ExtractAll(_, _)
ExtractAll(docs, k) ==
    IF k = 0 THEN <<>> ELSE ExtractAll(docs, k - 1) \o ExtractDocument(docs[k])

\* the files whose extraction gave the corpus d
WellFormed(d) == [i \in DOMAIN d |-> Document(FALSE, {}, d[i])]

\* main.rs:74-90
Extract ==
    /\ pc = "extract"
    /\ IF \E i \in DOMAIN documents : ExtractPanics(documents[i])
       THEN pc' = "abort" /\ UNCHANGED data
       ELSE data' = ExtractAll(documents, Len(documents)) /\ pc' = "parse"
    /\ UNCHANGED <<ioVars, documents, walk_seconds, nodeVars, edgeVars>>

----------------------------------------------------------------------------
(* main.rs parse: the bounding-box filter applied before Graph::from_data *)

\* long 5.5 .. 15.5 and lat 47.0 .. 55.5 in grid cells from the grid's origin
InBoundingBox(stop) ==
    stop.long > 0 /\ stop.long < 70000 /\ stop.lat > 0 /\ stop.lat < 94500

RetainStops(d) ==
    [i \in DOMAIN d |->
        [d[i] EXCEPT !.scheduled_stop_points = SelectSeq(@, InBoundingBox)]]

----------------------------------------------------------------------------
(* graph.rs Nodes::from_data *)

distance == 1000

\* every (document, stop) position of the corpus, in iteration order
RECURSIVE AllIndices(_, _)
AllIndices(d, k) ==
    IF k = 0 THEN <<>>
    ELSE AllIndices(d, k - 1) \o
         [s \in 1..Len(d[k].scheduled_stop_points) |-> Indices(0, k - 1, s - 1)]

\* nodes_by_name after the indexing loop
BucketsOf(d) ==
    LET all   == AllIndices(d, Len(d))
        names == {StopAt(d, all[i]).short_name : i \in DOMAIN all}
    IN  [n \in names |-> SelectSeq(all, LAMBDA ix : StopAt(d, ix).short_name = n)]

\* geo HaversineDestination at bearing 45 or 225: `dist` metres along the
\* diagonal move the point dist * cos(45 deg) metres on each axis
HaversineDestination(center, bearing, dist) ==
    LET off == ((dist * 7071) \div 10000) \div 10
    IN  IF bearing = 45 THEN <<center[1] + off, center[2] + off>>
        ELSE <<center[1] - off, center[2] - off>>

\* an envelope that is the first corner alone
AABBOfFirstCorner(c1, c2) == [lower |-> c1, upper |-> c1]

\* rstar AABB::from_corners
AABB(c1, c2) ==
    [lower |-> <<Min(c1[1], c2[1]), Min(c1[2], c2[2])>>,
     upper |-> <<IF c1[1] > c2[1] THEN c1[1] ELSE c2[1],
                 IF c1[2] > c2[2] THEN c1[2] ELSE c2[2]>>]

\* an envelope without its upper corner
InEnvelopeAboveLower(aabb, stop) ==
    aabb.lower[1] <= stop.long /\ aabb.lower[2] <= stop.lat

InEnvelope(aabb, stop) ==
    /\ aabb.lower[1] <= stop.long /\ stop.long <= aabb.upper[1]
    /\ aabb.lower[2] <= stop.lat  /\ stop.lat  <= aabb.upper[2]

RefIndicesOneBased(nodes_len, point_idx) ==
    Indices(nodes_len + 1, point_idx.data, point_idx.stop)

\* the value written to ref_map for one stop of the cluster
RefIndices(nodes_len, point_idx) ==
    Indices(nodes_len, point_idx.data, point_idx.stop)

RECURSIVE InsertRefsFirstWins(_, _, _, _)
InsertRefsFirstWins(m, d, local, nodes_len) ==
    IF local = <<>> THEN m
    ELSE InsertRefsFirstWins(
            IF StopAt(d, Head(local)).id \in DOMAIN m THEN m
            ELSE Insert(m, StopAt(d, Head(local)).id, RefIndices(nodes_len, Head(local))),
            d, Tail(local), nodes_len)

\* the ref_map inserts of one cluster, in `local` order
RECURSIVE InsertRefs(_, _, _, _)
InsertRefs(m, d, local, nodes_len) ==
    IF local = <<>> THEN m
    ELSE InsertRefs(Insert(m, StopAt(d, Head(local)).id,
                           RefIndices(nodes_len, Head(local))),
                    d, Tail(local), nodes_len)

\* geo: centroid of a LineString, the midpoints of its segments weighted by
\* the segments' lengths; a single point or a line of length 0 is that point
RECURSIVE SegmentSum(_, _, _)
SegmentSum(coords, axis, k) ==
    IF k = 0 THEN 0
    ELSE LET a   == coords[k]
             b   == coords[k + 1]
             len == ISqrt((a[1] - b[1]) * (a[1] - b[1]) + (a[2] - b[2]) * (a[2] - b[2]))
         IN  SegmentSum(coords, axis, k - 1) +
             (CASE axis = 0 -> 2 * len
                [] OTHER    -> len * (a[axis] + b[axis]))

Centroid(coords) ==
    IF coords = <<>> THEN <<>>
    ELSE LET total2 == SegmentSum(coords, 0, Len(coords) - 1)
         IN  IF total2 = 0 THEN <<coords[1]>>
             ELSE <<  <<SegmentSum(coords, 1, Len(coords) - 1) \div total2,
                        SegmentSum(coords, 2, Len(coords) - 1) \div total2>>  >>

\* sort_unstable followed by dedup
RECURSIVE SortDedup(_)
SortDedup(S) ==
    IF S = {} THEN <<>>
    ELSE LET m == CHOOSE x \in S : \A y \in S : x <= y
         IN  <<m>> \o SortDedup(S \ {m})

\* Iterator::reduce(|l, r| l ^ r) over a non-empty sequence
RECURSIVE XorReduce(_)
XorReduce(ids) ==
    IF Len(ids) = 1 THEN ids[1]
    ELSE Xor(XorReduce(SubSeq(ids, 1, Len(ids) - 1)), ids[Len(ids)])

\* one pass of `while tree.size() > 0`: the loop state after the pass
ExtractCluster(d, st) ==
    LET indices == Head(st.tree)
        current == StopAt(d, indices)
        center  == <<current.long, current.lat>>
        corner1 == HaversineDestination(center, 45, distance)
        corner2 == HaversineDestination(center, 225, distance)
        aabb    == AABB(corner1, corner2)
        local   == SelectSeq(st.tree, LAMBDA ix : InEnvelope(aabb, StopAt(d, ix)))
        rest    == SelectSeq(st.tree, LAMBDA ix : ~InEnvelope(aabb, StopAt(d, ix)))
        coords  == [i \in DOMAIN local |->
                       <<StopAt(d, local[i]).long, StopAt(d, local[i]).lat>>]
        centroid == Centroid(coords)
        node_ids == SortDedup({StopAt(d, local[i]).id : i \in DOMAIN local})
        node_id  == XorReduce(node_ids)
    IN  IF centroid = <<>> \/ node_ids = <<>>
        THEN [st EXCEPT !.panic = TRUE]
        ELSE [tree     |-> rest,
              name     |-> st.name,
              nodes    |-> Append(st.nodes,
                                  Node(node_id, st.name, centroid[1][1], centroid[1][2])),
              ref_map  |-> InsertRefs(st.ref_map, d, local, Len(st.nodes)),
              id_map   |-> Insert(st.id_map, node_id, Len(st.nodes)),
              clusters |-> Append(st.clusters, local),
              panic    |-> FALSE]

LoopState ==
    [tree |-> tree, name |-> name, nodes |-> nodes, ref_map |-> ref_map,
     id_map |-> id_map, clusters |-> clusters, panic |-> FALSE]

\* the `while` loop run until the tree is empty
RECURSIVE ClusterBucket(_, _)
ClusterBucket(d, st) ==
    IF st.tree = <<>> \/ st.panic THEN st ELSE ClusterBucket(d, ExtractCluster(d, st))

\* the `for` loop over nodes_by_name; the buckets do not read one another's
\* stops, so one order of the HashMap stands for all as far as the nodes'
\* ids and coordinates go
RECURSIVE ClusterBuckets(_, _, _)
ClusterBuckets(d, buckets, st) ==
    IF DOMAIN buckets = {} \/ st.panic THEN st
    ELSE LET n == CHOOSE n \in DOMAIN buckets : TRUE
         IN  ClusterBuckets(d, [x \in DOMAIN buckets \ {n} |-> buckets[x]],
                            ClusterBucket(d, [st EXCEPT !.tree = buckets[n], !.name = n]))

\* Nodes::from_data as a function of the corpus
NodesFromData(d) ==
    ClusterBuckets(d, BucketsOf(d),
                   [tree |-> <<>>, name |-> "", nodes |-> <<>>, ref_map |-> EmptyMap,
                    id_map |-> EmptyMap, clusters |-> <<>>, panic |-> FALSE])

(* actions *)

\* main.rs:92-96
Retain ==
    /\ pc = "parse"
    /\ data' = RetainStops(data)
    /\ pc' = "index"
    /\ UNCHANGED <<ioVars, documents, walk_seconds, nodeVars, edgeVars>>

\* graph.rs:93-107
IndexStops ==
    /\ pc = "index"
    /\ nodes_by_name' = BucketsOf(data)
    /\ pc' = "cluster"
    /\ UNCHANGED <<ioVars, documents, data, walk_seconds, name, tree, nodes,
                   ref_map, id_map, clusters, edgeVars>>

\* graph.rs:111-121: the next bucket, in the HashMap's order, is bulk-loaded
LoadBucket ==
    /\ pc = "cluster"
    /\ tree = <<>>
    /\ \E n \in DOMAIN nodes_by_name :
          /\ name' = n
          /\ tree' = nodes_by_name[n]
          /\ nodes_by_name' = [x \in DOMAIN nodes_by_name \ {n} |-> nodes_by_name[x]]
    /\ UNCHANGED <<ioVars, documents, data, walk_seconds, pc, nodes, ref_map,
                   id_map, clusters, edgeVars>>

\* graph.rs:122-165
Cluster ==
    /\ pc = "cluster"
    /\ tree # <<>>
    /\ LET st == ExtractCluster(data, LoopState)
       IN  /\ tree' = st.tree
           /\ nodes' = st.nodes
           /\ ref_map' = st.ref_map
           /\ id_map' = st.id_map
           /\ clusters' = st.clusters
           /\ pc' = IF st.panic THEN "abort" ELSE pc
    /\ UNCHANGED <<ioVars, documents, data, walk_seconds, nodes_by_name,
                   name, edgeVars>>

\* graph.rs:167-172
NodesDone ==
    /\ pc = "cluster"
    /\ tree = <<>>
    /\ DOMAIN nodes_by_name = {}
    /\ pc' = "nodes"
    /\ UNCHANGED <<ioVars, documents, data, walk_seconds, nodeVars, edgeVars>>

----------------------------------------------------------------------------
(* graph.rs JourneyTransformer *)

\* data.iter().flat_map(|d| d.<field>.iter()) over the first k documents
RECURSIVE FlatMap(_, _, _)
FlatMap(d, field, k) ==
    IF k = 0 THEN <<>> ELSE FlatMap(d, field, k - 1) \o d[k][field]

RECURSIVE Concat(_, _)
Concat(seqs, k) == IF k = 0 THEN <<>> ELSE Concat(seqs, k - 1) \o seqs[k]

Keys(s, key) == {s[i][key] : i \in DOMAIN s}

\* the position whose value a HashMap keeps for key k under `insert` (last
\* write wins) and under `entry().or_insert` (first write wins)
LastIdx(s, key, k) ==
    CHOOSE i \in DOMAIN s : s[i][key] = k /\ \A j \in DOMAIN s : s[j][key] = k => j <= i

FirstIdx(s, key, k) ==
    CHOOSE i \in DOMAIN s : s[i][key] = k /\ \A j \in DOMAIN s : s[j][key] = k => i <= j

PeriodMap(d) ==
    LET periods == FlatMap(d, "operating_periods", Len(d))
    IN  [k \in Keys(periods, "id") |-> LastIdx(periods, "id", k) - 1]

JourneyTransformer(d) ==
    LET patterns == FlatMap(d, "service_journey_patterns", Len(d))
        points   == Concat([i \in DOMAIN patterns |-> patterns[i].stops], Len(patterns))
        lines    == FlatMap(d, "lines", Len(d))
        auths    == FlatMap(d, "authorities", Len(d))
        dtas     == FlatMap(d, "day_type_assignments", Len(d))
    IN  [point_in_journey_to_stop_ref |->
            [k \in Keys(points, "id") |->
                points[FirstIdx(points, "id", k)].scheduled_stop_point],
         lines |-> [k \in Keys(lines, "id") |-> lines[LastIdx(lines, "id", k)]],
         authorities |-> [k \in Keys(auths, "id") |-> auths[LastIdx(auths, "id", k)]],
         pattern_ref_to_line_ref |->
            [k \in Keys(patterns, "id") |-> patterns[LastIdx(patterns, "id", k)].line],
         period_map |-> PeriodMap(d),
         day_type_assignments |->
            [k \in Keys(dtas, "day_type") |-> dtas[LastIdx(dtas, "day_type", k)]]]

U16Max == 65535

DefaultTimetable == Timetable(<<>>, <<>>)

\* to_edges from the i-th window on; `rm` is Nodes.ref_map.  A panic (an
\* index into a HashMap without the key, `expect`, `unwrap`) ends the run.
RECURSIVE ToEdgesFrom(_, _, _, _, _, _)
ToEdgesFrom(jt, rm, journey, from, i, local_edges) ==
    IF i >= Len(journey.passing_times)
    THEN [panic |-> FALSE, edges |-> local_edges]
    ELSE
      LET pre     == journey.passing_times[i]
          current == journey.passing_times[i + 1]
          p2s     == jt.point_in_journey_to_stop_ref
          next(m) == ToEdgesFrom(jt, rm, journey, from, i + 1, m)
          abort   == [panic |-> TRUE, edges |-> local_edges]
      IN
      IF pre.stop_point_in_journey_pattern \notin DOMAIN p2s THEN abort
      ELSE IF p2s[pre.stop_point_in_journey_pattern] \notin DOMAIN rm
      THEN next(local_edges)
      ELSE IF current.stop_point_in_journey_pattern \notin DOMAIN p2s THEN abort
      ELSE IF p2s[current.stop_point_in_journey_pattern] \notin DOMAIN rm
      THEN next(local_edges)
      ELSE IF journey.day_type \notin DOMAIN jt.day_type_assignments THEN abort
      ELSE IF journey.pattern_ref \notin DOMAIN jt.pattern_ref_to_line_ref THEN abort
      ELSE IF jt.pattern_ref_to_line_ref[journey.pattern_ref] \notin DOMAIN jt.lines
      THEN abort
      ELSE
        LET start_indecies == rm[p2s[pre.stop_point_in_journey_pattern]]
            end_indecies   == rm[p2s[current.stop_point_in_journey_pattern]]
            period == jt.day_type_assignments[journey.day_type].operating_period
            key    == <<start_indecies.node, end_indecies.node>>
            line   == jt.lines[jt.pattern_ref_to_line_ref[journey.pattern_ref]]
            entry  == IF key \in DOMAIN local_edges THEN local_edges[key]
                      ELSE Edge(start_indecies.node, end_indecies.node,
                                DefaultTimetable, U16Max)
        IN
        IF period \notin DOMAIN jt.period_map \/ line.authority \notin DOMAIN jt.authorities
        THEN abort
        ELSE next(Insert(local_edges, key,
                 [entry EXCEPT !.timetable.journeys =
                     Append(@, Journey(pre.departure, current.arrival,
                                       journey.transport_mode, jt.period_map[period],
                                       line.short_name,
                                       jt.authorities[line.authority].short_name,
                                       from))]))

\* a to_edges whose windows start at the second passing time
ToEdgesPastFirstWindow(jt, rm, journey, from) ==
    ToEdgesFrom(jt, rm, journey, from, 2, EmptyMap)

ToEdges(jt, rm, journey, from) == ToEdgesFrom(jt, rm, journey, from, 1, EmptyMap)

\* the service journeys of the corpus in flat_map order, each with its
\* (document, index) position
RECURSIVE JourneyRefs(_, _)
JourneyRefs(d, k) ==
    IF k = 0 THEN <<>>
    ELSE JourneyRefs(d, k - 1) \o
         [i \in 1..Len(d[k].service_journeys) |-> <<k - 1, i - 1>>]

\* a closure that keeps only the right operand's journeys where both
\* operands have the key
ReducerKeepingRight(a, b) ==
    [key \in DOMAIN a \cup DOMAIN b |->
        IF key \in DOMAIN b THEN b[key]
        ELSE [Edge(key[1], key[2], DefaultTimetable, U16Max)
                 EXCEPT !.timetable.journeys = a[key].timetable.journeys]]

\* the closure given to `reduce`
Reducer(a, b) ==
    [key \in DOMAIN a \cup DOMAIN b |->
        IF key \in DOMAIN a
        THEN LET entry == IF key \in DOMAIN b THEN b[key]
                          ELSE Edge(key[1], key[2], DefaultTimetable, U16Max)
             IN  [entry EXCEPT !.timetable.journeys = @ \o a[key].timetable.journeys]
        ELSE b[key]]

----------------------------------------------------------------------------
(* graph.rs great_circle_distance, update_walk, filter_journeys *)

\* the square of the distance, in grid cells
great_circle_distance(a, b) ==
    (a[1] - b[1]) * (a[1] - b[1]) + (a[2] - b[2]) * (a[2] - b[2])

\* `distance > km` and `distance < km` for a whole number of kilometres
FartherThan(d2, km) == d2 > (100 * km) * (100 * km)

NearerThan(d2, km) == d2 < (100 * km) * (100 * km)

AsU16Rounded(duration) ==
    IF duration < 0 THEN 0 ELSE Min((duration + 5) \div 10, U16Max)

\* `f32 as u16` of a duration given in tenths of a second: the fraction is
\* cut off and the value saturates at both ends of u16
AsU16(duration) ==
    IF duration < 0 THEN 0 ELSE Min(duration \div 10, U16Max)

BackwardEdgeToItself(start_idx, end_idx) ==
    Edge(end_idx, end_idx, DefaultTimetable, U16Max)

\* the edge update_walk inserts when the reverse pair has none
BackwardEdge(start_idx, end_idx) ==
    Edge(end_idx, start_idx, DefaultTimetable, U16Max)

\* an update_walk that inserts fresh edges over the ones the map has
UpdateWalkInsertingFresh(walk_edge, nds, ids, es) ==
    IF walk_edge.start \notin DOMAIN ids \/ walk_edge.end \notin DOMAIN ids
    THEN es
    ELSE
      LET start_idx  == ids[walk_edge.start]
          end_idx    == ids[walk_edge.end]
          start_node == At(nds, start_idx)
          end_node   == At(nds, end_idx)
          dist == great_circle_distance(<<start_node.long, start_node.lat>>,
                                        <<end_node.long, end_node.lat>>)
      IN
      IF FartherThan(dist, 1) THEN es
      ELSE Insert(Insert(es, <<start_idx, end_idx>>,
                         Edge(start_idx, end_idx, DefaultTimetable,
                              AsU16(walk_edge.duration))),
                  <<end_idx, start_idx>>,
                  Edge(end_idx, start_idx, DefaultTimetable, AsU16(walk_edge.duration)))

\* graph.rs:370-401
UpdateWalk(walk_edge, nds, ids, es) ==
    IF walk_edge.start \notin DOMAIN ids \/ walk_edge.end \notin DOMAIN ids
    THEN es
    ELSE
      LET start_idx  == ids[walk_edge.start]
          end_idx    == ids[walk_edge.end]
          start_node == At(nds, start_idx)
          end_node   == At(nds, end_idx)
          dist == great_circle_distance(<<start_node.long, start_node.lat>>,
                                        <<end_node.long, end_node.lat>>)
      IN
      IF FartherThan(dist, 1) THEN es
      ELSE
        LET forward == IF <<start_idx, end_idx>> \in DOMAIN es
                       THEN es[<<start_idx, end_idx>>]
                       ELSE Edge(start_idx, end_idx, DefaultTimetable, U16Max)
            es1 == Insert(es, <<start_idx, end_idx>>,
                          [forward EXCEPT !.walk_seconds = AsU16(walk_edge.duration)])
            backward == IF <<end_idx, start_idx>> \in DOMAIN es1
                        THEN es1[<<end_idx, start_idx>>]
                        ELSE BackwardEdge(start_idx, end_idx)
        IN  Insert(es1, <<end_idx, start_idx>>,
                   [backward EXCEPT !.walk_seconds = AsU16(walk_edge.duration)])

\* `distance / hours < 325.0` with hours = minutes / 60.  A division by zero
\* gives an infinity or a NaN, and neither is below 325.  The minutes are
\* capped at 14, from where on every distance the grid arithmetic can hold
\* (up to 75 km) is below the limit, to keep the products in range.
SlowerThan325(d2, minutes) ==
    LET m == Min(minutes, 14)
    IN  minutes > 0 /\ 36 * d2 < 3250 * 3250 * m * m

\* `arrival_min - departure_min` goes below zero: a panic where the build
\* checks overflow, a wrap where it does not
MinutesUnderflow(j) ==
    LET arrival_min == IF j.arrival < j.departure THEN j.arrival + 24 * 60 ELSE j.arrival
    IN  arrival_min < j.departure

\* the closure given to `retain`
RetainJourney(j, dist) ==
    LET departure_min == U16(U16(j.departure % 60) + U16((j.departure \div 60) * 60))
        arrival_0     == U16(U16(j.arrival % 60) + U16((j.arrival \div 60) * 60))
        arrival_min   == IF arrival_0 < departure_min
                         THEN U16(arrival_0 + 24 * 60) ELSE arrival_0
        minutes       == U16(arrival_min - departure_min)
    IN  SlowerThan325(dist, minutes) \/ (minutes < 3 /\ NearerThan(dist, 3))

FilterJourneys(edge, nds) ==
    LET start_node == At(nds, edge.start_node)
        end_node   == At(nds, edge.end_node)
        dist == great_circle_distance(<<start_node.long, start_node.lat>>,
                                      <<end_node.long, end_node.lat>>)
    IN  [edge EXCEPT !.timetable.journeys =
            SelectSeq(@, LAMBDA j : RetainJourney(j, dist))]

----------------------------------------------------------------------------
(* graph.rs lookup_operating_period and the period remap of Graph::from_data *)

RECURSIVE LookupFromNoRebase(_, _, _)
LookupFromNoRebase(d, k, global_index) ==
    IF k > Len(d) THEN <<>>
    ELSE IF global_index < Len(d[k].operating_periods)
    THEN << At(d[k].operating_periods, global_index) >>
    ELSE LookupFromNoRebase(d, k + 1, global_index)

\* Some(period) is <<period>>, None is <<>>
RECURSIVE LookupFrom(_, _, _)
LookupFrom(d, k, global_index) ==
    IF k > Len(d) THEN <<>>
    ELSE IF global_index < Len(d[k].operating_periods)
    THEN << At(d[k].operating_periods, global_index) >>
    ELSE LookupFrom(d, k + 1, global_index - Len(d[k].operating_periods))

lookup_operating_period(d, global_index) == LookupFrom(d, 1, global_index)

RECURSIVE GlobalToLocalCountingAll(_, _, _)
GlobalToLocalCountingAll(journeys, i, map) ==
    IF i > Len(journeys) THEN map
    ELSE IF journeys[i].operating_period \in DOMAIN map
    THEN GlobalToLocalCountingAll(journeys, i + 1, map)
    ELSE GlobalToLocalCountingAll(journeys, i + 1,
                                  Insert(map, journeys[i].operating_period, i - 1))

\* global_to_local after the first loop over the journeys
RECURSIVE GlobalToLocal(_, _, _)
GlobalToLocal(journeys, i, map) ==
    IF i > Len(journeys) THEN map
    ELSE IF journeys[i].operating_period \in DOMAIN map
    THEN GlobalToLocal(journeys, i + 1, map)
    ELSE GlobalToLocal(journeys, i + 1,
                       Insert(map, journeys[i].operating_period,
                              Cardinality(DOMAIN map)))

DefaultOperatingPeriod == OperatingPeriod(0, 0, <<>>)

LocalOpsWithSpare(d, global_to_local) ==
    [l \in 1..(Cardinality(DOMAIN global_to_local) + 1) |->
        IF \E g \in DOMAIN global_to_local : global_to_local[g] = l - 1
        THEN LET g == CHOOSE g \in DOMAIN global_to_local : global_to_local[g] = l - 1
                 uic_op == lookup_operating_period(d, g)[1]
             IN  OperatingPeriod(uic_op.from, uic_op.to, uic_op.valid_day_bits)
        ELSE DefaultOperatingPeriod]

\* local_ops after the second loop
LocalOps(d, global_to_local) ==
    [l \in 1..Cardinality(DOMAIN global_to_local) |->
        IF \E g \in DOMAIN global_to_local : global_to_local[g] = l - 1
        THEN LET g == CHOOSE g \in DOMAIN global_to_local : global_to_local[g] = l - 1
                 uic_op == lookup_operating_period(d, g)[1]
             IN  OperatingPeriod(uic_op.from, uic_op.to, uic_op.valid_day_bits)
        ELSE DefaultOperatingPeriod]

RemapPanics(d, edge) ==
    \E i \in DOMAIN edge.timetable.journeys :
        lookup_operating_period(d, edge.timetable.journeys[i].operating_period) = <<>>

RemapPeriods(d, edge) ==
    LET global_to_local == GlobalToLocal(edge.timetable.journeys, 1, EmptyMap)
    IN  [edge EXCEPT
            !.timetable.journeys =
                [i \in DOMAIN @ |->
                    [@[i] EXCEPT !.operating_period = global_to_local[@]]],
            !.timetable.periods = LocalOps(d, global_to_local)]

----------------------------------------------------------------------------
(* graph.rs Graph::from_data, after the nodes *)

MapJourneysPastPanics ==
    /\ pc = "nodes"
    /\ LET jt   == JourneyTransformer(data)
           refs == JourneyRefs(data, Len(data))
           maps == [i \in DOMAIN refs |->
                      ToEdges(jt, ref_map,
                              At(At(data, refs[i][1]).service_journeys, refs[i][2]),
                              refs[i])]
       IN  IF maps = <<>>
           THEN pc' = "overlay" /\ edges' = EmptyMap /\ UNCHANGED parts
           ELSE /\ pc' = "reduce"
                /\ parts' = <<EmptyMap>> \o [i \in DOMAIN maps |-> maps[i].edges]
                /\ UNCHANGED edges
    /\ UNCHANGED <<ioVars, documents, data, walk_seconds, nodeVars, walk_idx,
                   unfiltered, unmapped, graph>>

\* graph.rs:300-306: every service journey is mapped to its edge map; the
\* maps wait, in order and behind the identity, to be combined
MapJourneys ==
    /\ pc = "nodes"
    /\ LET jt   == JourneyTransformer(data)
           refs == JourneyRefs(data, Len(data))
           maps == [i \in DOMAIN refs |->
                      ToEdges(jt, ref_map,
                              At(At(data, refs[i][1]).service_journeys, refs[i][2]),
                              refs[i])]
       IN  IF \E i \in DOMAIN maps : maps[i].panic
           THEN pc' = "abort" /\ UNCHANGED <<parts, edges>>
           ELSE IF maps = <<>>
           THEN pc' = "overlay" /\ edges' = EmptyMap /\ UNCHANGED parts
           ELSE /\ pc' = "reduce"
                /\ parts' = <<EmptyMap>> \o [i \in DOMAIN maps |-> maps[i].edges]
                /\ UNCHANGED edges
    /\ UNCHANGED <<ioVars, documents, data, walk_seconds, nodeVars, walk_idx,
                   unfiltered, unmapped, graph>>

\* graph.rs:307-321: two neighbouring maps are combined
Reduce ==
    /\ pc = "reduce"
    /\ \E i \in 1..(Len(parts) - 1) :
          LET combined == Reducer(parts[i], parts[i + 1])
          IN  IF Len(parts) = 2
              THEN edges' = combined /\ parts' = <<>> /\ pc' = "overlay"
              ELSE /\ parts' = SubSeq(parts, 1, i - 1) \o <<combined>> \o
                               SubSeq(parts, i + 2, Len(parts))
                   /\ UNCHANGED <<edges, pc>>
    /\ UNCHANGED <<ioVars, documents, data, walk_seconds, nodeVars, walk_idx,
                   unfiltered, unmapped, graph>>

\* graph.rs:324-326, one pass of the loop
Overlay ==
    /\ pc = "overlay"
    /\ walk_idx < Len(walk_seconds)
    /\ edges' = UpdateWalk(At(walk_seconds, walk_idx), nodes, id_map, edges)
    /\ walk_idx' = walk_idx + 1
    /\ UNCHANGED <<ioVars, documents, data, walk_seconds, pc, nodeVars,
                   parts, unfiltered, unmapped, graph>>

\* graph.rs:329-331
Filter ==
    /\ pc = "overlay"
    /\ walk_idx = Len(walk_seconds)
    /\ unfiltered' = edges
    /\ \/ /\ \E k \in DOMAIN edges : \E i \in DOMAIN edges[k].timetable.journeys :
                MinutesUnderflow(edges[k].timetable.journeys[i])
          /\ pc' = "abort"
          /\ UNCHANGED edges
       \/ /\ edges' = [k \in DOMAIN edges |-> FilterJourneys(edges[k], nodes)]
          /\ pc' = "filtered"
    /\ UNCHANGED <<ioVars, documents, data, walk_seconds, nodeVars, parts,
                   walk_idx, unmapped, graph>>

\* graph.rs:334-362
Remap ==
    /\ pc = "filtered"
    /\ unmapped' = edges
    /\ IF \E k \in DOMAIN edges : RemapPanics(data, edges[k])
       THEN pc' = "abort" /\ UNCHANGED edges
       ELSE /\ edges' = [k \in DOMAIN edges |-> RemapPeriods(data, edges[k])]
            /\ pc' = "remapped"
    /\ UNCHANGED <<ioVars, documents, data, walk_seconds, nodeVars, parts,
                   walk_idx, unfiltered, graph>>

\* HashMap::into_values().collect(): the edges in no particular order
IntoValues(es) ==
    LET values == {es[k] : k \in DOMAIN es}
    IN  [e \in values |-> Cardinality({k \in DOMAIN es : es[k] = e})]

\* graph.rs:364-367
Return ==
    /\ pc = "remapped"
    /\ graph' = << [nodes |-> nodes, edges |-> IntoValues(edges)] >>
    /\ pc' = "done"
    /\ UNCHANGED <<ioVars, documents, data, walk_seconds, nodeVars, parts,
                   edges, walk_idx, unfiltered, unmapped>>

----------------------------------------------------------------------------
(* Corpora of the clustering specification *)

MaxStops == 3

StopPool ==
    { ScheduledStopPoint(1, "a", 100, 100),
      ScheduledStopPoint(2, "a", 120, 100),
      ScheduledStopPoint(2, "a", 160, 100),
      ScheduledStopPoint(4, "a", 220, 100),
      ScheduledStopPoint(4, "a", 230, 170),
      ScheduledStopPoint(1, "b", 100, 100),
      ScheduledStopPoint(1, "a", 1100, 100),
      ScheduledStopPoint(4, "b", 0, 100) }

StopsOnly(stops) == NetexData(stops, <<>>, <<>>, <<>>, <<>>, <<>>, <<>>)

InitNodes ==
    /\ \E stops \in SeqsUpTo(StopPool, MaxStops) :
          \E cut \in 0..Len(stops) :
             data = << StopsOnly(SubSeq(stops, 1, cut)),
                       StopsOnly(SubSeq(stops, cut + 1, Len(stops))) >>
    /\ walk_seconds = <<>>
    /\ documents = WellFormed(data)
    /\ pc = "parse"
    /\ text = NoText /\ decoded = <<>> /\ file = <<>>
    /\ nodes_by_name = EmptyMap
    /\ name = ""
    /\ tree = <<>>
    /\ nodes = <<>>
    /\ ref_map = EmptyMap
    /\ id_map = EmptyMap
    /\ clusters = <<>>
    /\ parts = <<>>
    /\ edges = EmptyMap
    /\ walk_idx = 0
    /\ unfiltered = EmptyMap
    /\ unmapped = EmptyMap
    /\ graph = <<>>

NextNodes == Retain \/ IndexStops \/ LoadBucket \/ Cluster \/ NodesDone

SpecNodes == InitNodes /\ [][NextNodes]_vars

\* a pass of the `while` loop can be taken: Cluster assigns every variable
\* and changes the index or pc, so this guard is ENABLED <<Cluster>>_vars
ClusterEnabled == pc = "cluster" /\ tree # <<>>

\* Nodes::from_data runs on the one thread of Graph::from_data and every
\* step of it returns, so a step that can be taken is taken: weak fairness
\* of each action, that of Cluster written out over its guard
SpecNodesFair ==
    /\ SpecNodes
    /\ WF_vars(Retain) /\ WF_vars(IndexStops) /\ WF_vars(LoadBucket) /\ WF_vars(NodesDone)
    /\ ([]<>(~ClusterEnabled) \/ []<><<Cluster>>_vars)

----------------------------------------------------------------------------
(* Corpora of the pipeline specification *)

MaxJourneys == 2

MaxWalks == 2

Patterns ==
    << ServiceJourneyPattern(10, 20,
          << StopPointInJourneyPattern(1, 1),
             StopPointInJourneyPattern(2, 2),
             StopPointInJourneyPattern(3, 4) >>) >>

Lines == << Line(20, "L", 30) >>

Authorities == << Authority(30, "A") >>

DayTypes == << DayTypeAssignment(1, 5, TRUE), DayTypeAssignment(2, 6, TRUE) >>

\* the stops of the two documents
StopLayouts ==
    { << <<ScheduledStopPoint(1, "a", 100, 100)>>,
         <<ScheduledStopPoint(2, "b", 150, 100)>> >>,
      << <<ScheduledStopPoint(1, "a", 100, 100), ScheduledStopPoint(2, "a", 120, 100)>>,
         <<ScheduledStopPoint(4, "b", 150, 100)>> >>,
      << <<>>,
         <<ScheduledStopPoint(1, "a", 100, 100), ScheduledStopPoint(2, "b", 1100, 100)>> >>,
      << <<ScheduledStopPoint(1, "a", 100, 100), ScheduledStopPoint(2, "b", 5100, 100)>>,
         <<>> >>,
      << <<ScheduledStopPoint(1, "a", 100, 100)>>,
         <<ScheduledStopPoint(2, "b", 0, 100)>> >> }

JourneyPool ==
    { ServiceJourney(10, 1, "bus",
         << TimetabledPassingTime(1, Clock(8, 0), Clock(8, 0)),
            TimetabledPassingTime(2, Clock(8, 5), Clock(8, 6)) >>),
      ServiceJourney(10, 2, "rail",
         << TimetabledPassingTime(1, Clock(10, 0), Clock(10, 0)),
            TimetabledPassingTime(2, Clock(10, 1), Clock(10, 1)) >>),
      ServiceJourney(10, 1, "bus",
         << TimetabledPassingTime(1, Clock(23, 55), Clock(23, 55)),
            TimetabledPassingTime(2, Clock(0, 10), Clock(0, 10)) >>),
      ServiceJourney(10, 2, "rail",
         << TimetabledPassingTime(1, Clock(9, 0), Clock(9, 1)),
            TimetabledPassingTime(2, Clock(9, 1), Clock(25, 0)),
            TimetabledPassingTime(1, Clock(0, 10), Clock(0, 11)) >>) }

\* the operating periods of the two documents
PeriodLayouts ==
    LET a  == UicOperatingPeriod(5, 220101, 220131, <<127>>)
        b  == UicOperatingPeriod(6, 220201, 220228, <<127, 3>>)
        a2 == UicOperatingPeriod(5, 220301, 220331, <<1>>)
    IN  { << <<a>>, <<b>> >>,
          << <<>>, <<a, b>> >>,
          << <<a, b>>, <<a2>> >>,
          << <<b, a>>, <<>> >> }

\* durations in tenths of a second
WalkPool ==
    { WalkEdge(1, 2, 1207), WalkEdge(2, 1, 700000), WalkEdge(3, 4, 1200) }

Init ==
    /\ \E stops \in StopLayouts, periods \in PeriodLayouts,
          journeys \in DistinctSeqsUpTo(JourneyPool, MaxJourneys) :
          data = << NetexData(stops[1], Patterns, SubSeq(journeys, 1, Min(1, Len(journeys))), periods[1],
                              DayTypes, Lines, Authorities),
                    NetexData(stops[2], <<>>, SubSeq(journeys, 2, Len(journeys)),
                              periods[2], <<>>, <<>>, <<>>) >>
    /\ walk_seconds \in DistinctSeqsUpTo(WalkPool, MaxWalks)
    /\ documents = WellFormed(data)
    /\ pc = "parse"
    /\ text = NoText /\ decoded = <<>> /\ file = <<>>
    /\ nodes_by_name = EmptyMap
    /\ name = ""
    /\ tree = <<>>
    /\ nodes = <<>>
    /\ ref_map = EmptyMap
    /\ id_map = EmptyMap
    /\ clusters = <<>>
    /\ parts = <<>>
    /\ edges = EmptyMap
    /\ walk_idx = 0
    /\ unfiltered = EmptyMap
    /\ unmapped = EmptyMap
    /\ graph = <<>>

Next ==
    \/ Retain \/ IndexStops \/ LoadBucket \/ Cluster \/ NodesDone
    \/ MapJourneys \/ Reduce \/ Overlay \/ Filter \/ Remap \/ Return

Spec == Init /\ [][Next]_vars

----------------------------------------------------------------------------
(* Corpora of the specification of to_edges and the reduce *)

MaxTrips == 2

\* the stops of the two documents: two nodes 0.5 km apart; stops 1 and 2 in
\* one node beside stop 4; stop 2 outside the bounding box beside stops 1
\* and 4
EdgeStopLayouts ==
    { << <<ScheduledStopPoint(1, "a", 100, 100)>>,
         <<ScheduledStopPoint(2, "b", 150, 100)>> >>,
      << <<ScheduledStopPoint(1, "a", 100, 100), ScheduledStopPoint(2, "a", 120, 100)>>,
         <<ScheduledStopPoint(4, "b", 150, 100)>> >>,
      << <<ScheduledStopPoint(1, "a", 100, 100), ScheduledStopPoint(2, "b", 0, 100)>>,
         <<ScheduledStopPoint(4, "c", 150, 100)>> >> }

\* point 9 is in no pattern, day type 3 has no assignment
TripPool ==
    { ServiceJourney(10, 1, "bus",
         << TimetabledPassingTime(1, Clock(8, 0), Clock(8, 0)),
            TimetabledPassingTime(2, Clock(8, 5), Clock(8, 6)) >>),
      ServiceJourney(10, 2, "rail",
         << TimetabledPassingTime(1, Clock(9, 0), Clock(9, 1)),
            TimetabledPassingTime(2, Clock(9, 10), Clock(9, 11)),
            TimetabledPassingTime(1, Clock(9, 20), Clock(9, 21)) >>),
      ServiceJourney(10, 1, "tram",
         << TimetabledPassingTime(3, Clock(7, 0), Clock(7, 1)),
            TimetabledPassingTime(1, Clock(7, 10), Clock(7, 11)),
            TimetabledPassingTime(2, Clock(7, 20), Clock(7, 21)) >>),
      ServiceJourney(10, 1, "bus",
         << TimetabledPassingTime(1, Clock(6, 0), Clock(6, 1)),
            TimetabledPassingTime(2, Clock(6, 10), Clock(6, 11)),
            TimetabledPassingTime(9, Clock(6, 20), Clock(6, 21)) >>),
      ServiceJourney(10, 3, "bus",
         << TimetabledPassingTime(1, Clock(5, 0), Clock(5, 1)),
            TimetabledPassingTime(2, Clock(5, 10), Clock(5, 11)) >>),
      ServiceJourney(10, 1, "bus",
         << TimetabledPassingTime(1, Clock(4, 0), Clock(4, 1)) >>) }

\* the operating periods of the two documents; the second has no period 6
EdgePeriodLayouts ==
    LET a == UicOperatingPeriod(5, 220101, 220131, <<127>>)
        b == UicOperatingPeriod(6, 220201, 220228, <<127, 3>>)
    IN  { << <<a>>, <<b>> >>, << <<a>>, <<>> >> }

InitEdges ==
    /\ \E stops \in EdgeStopLayouts, periods \in EdgePeriodLayouts,
          journeys \in DistinctSeqsUpTo(TripPool, MaxTrips) :
          data = << NetexData(stops[1], Patterns,
                              SubSeq(journeys, 1, Min(1, Len(journeys))), periods[1],
                              DayTypes, Lines, Authorities),
                    NetexData(stops[2], <<>>, SubSeq(journeys, 2, Len(journeys)),
                              periods[2], <<>>, <<>>, <<>>) >>
    /\ walk_seconds = <<>>
    /\ documents = WellFormed(data)
    /\ pc = "parse"
    /\ text = NoText /\ decoded = <<>> /\ file = <<>>
    /\ nodes_by_name = EmptyMap
    /\ name = ""
    /\ tree = <<>>
    /\ nodes = <<>>
    /\ ref_map = EmptyMap
    /\ id_map = EmptyMap
    /\ clusters = <<>>
    /\ parts = <<>>
    /\ edges = EmptyMap
    /\ walk_idx = 0
    /\ unfiltered = EmptyMap
    /\ unmapped = EmptyMap
    /\ graph = <<>>

NextEdges ==
    \/ Retain \/ IndexStops \/ LoadBucket \/ Cluster \/ NodesDone
    \/ MapJourneys \/ Reduce \/ Filter \/ Remap \/ Return

SpecEdges == InitEdges /\ [][NextEdges]_vars

----------------------------------------------------------------------------
(* Corpora of the extraction specification *)

MaxDocs == 2

\* a directory, and files of two contents, each sound or with defects
DocPool ==
    LET contents == { StopsOnly(<<ScheduledStopPoint(1, "a", 100, 100)>>),
                      StopsOnly(<<ScheduledStopPoint(2, "a", 120, 100),
                                  ScheduledStopPoint(4, "b", 0, 100)>>) }
        defects  == { {}, {"xml"}, {"coordinate"}, {"is_available"}, {"journey"},
                      {"coordinate", "journey"}, {"journey", "is_available"} }
    IN  {Document(TRUE, {}, DefaultNetexData)}
        \cup {Document(FALSE, d, c) : d \in defects, c \in contents}

InitParse ==
    /\ documents \in SeqsUpTo(DocPool, MaxDocs)
    /\ data = <<>>
    /\ walk_seconds = <<>>
    /\ pc = "extract"
    /\ text = NoText /\ decoded = <<>> /\ file = <<>>
    /\ nodes_by_name = EmptyMap
    /\ name = ""
    /\ tree = <<>>
    /\ nodes = <<>>
    /\ ref_map = EmptyMap
    /\ id_map = EmptyMap
    /\ clusters = <<>>
    /\ parts = <<>>
    /\ edges = EmptyMap
    /\ walk_idx = 0
    /\ unfiltered = EmptyMap
    /\ unmapped = EmptyMap
    /\ graph = <<>>

NextParse ==
    \/ Extract \/ Retain \/ IndexStops \/ LoadBucket \/ Cluster \/ NodesDone

SpecParse == InitParse /\ [][NextParse]_vars

----------------------------------------------------------------------------
(* The codecs of parser.rs on their own *)

\* parse_service_journey hands the text of an ArrivalTime or DepartureTime
\* to parse_minutes
ParseMinutes ==
    /\ pc = "codec"
    /\ text.codec = "minutes"
    /\ decoded = <<>>
    /\ decoded' = << parse_minutes(text.bytes) >>
    /\ UNCHANGED <<text, file, documents, data, walk_seconds, pc, nodeVars, edgeVars>>

\* parse_operating_period hands the text of ValidDayBits to parse_day_bits
ParseDayBits ==
    /\ pc = "codec"
    /\ text.codec = "day_bits"
    /\ decoded = <<>>
    /\ decoded' = << parse_day_bits(text.bytes) >>
    /\ UNCHANGED <<text, file, documents, data, walk_seconds, pc, nodeVars, edgeVars>>

MaxBits == 10

\* the seconds a time may end in: none, ":00", ":59"
SecondsTexts == { <<>>, <<58, 48, 48>>, <<58, 53, 57>> }

\* "HH:MM" and "HH:MM:SS" for all digits H and M
ClockTexts ==
    {ClockText(hh, mm) \o ss : hh \in 0..99, mm \in 0..99, ss \in SecondsTexts}

\* the texts over '0' and '1' of at most MaxBits characters
DayBitTexts == SeqsUpTo({48, 49}, MaxBits)

InitCodec ==
    /\ text \in {[codec |-> "minutes", bytes |-> b] : b \in ClockTexts}
                \cup {[codec |-> "day_bits", bytes |-> b] : b \in DayBitTexts}
    /\ decoded = <<>>
    /\ file = <<>>
    /\ documents = <<>>
    /\ data = <<>>
    /\ walk_seconds = <<>>
    /\ pc = "codec"
    /\ nodes_by_name = EmptyMap
    /\ name = ""
    /\ tree = <<>>
    /\ nodes = <<>>
    /\ ref_map = EmptyMap
    /\ id_map = EmptyMap
    /\ clusters = <<>>
    /\ parts = <<>>
    /\ edges = EmptyMap
    /\ walk_idx = 0
    /\ unfiltered = EmptyMap
    /\ unmapped = EmptyMap
    /\ graph = <<>>

NextCodec == ParseMinutes \/ ParseDayBits

SpecCodec == InitCodec /\ [][NextCodec]_vars

----------------------------------------------------------------------------
(* main.rs: dump_binary *)

\* to_le_bytes of an integer written on n bytes, least significant byte first;
\* the integers of the model stay below 2^31, so the bytes past the fourth
\* are zero
to_le_bytes(x, n) == [i \in 1..n |-> IF i > 4 THEN 0 ELSE (x \div 256 ^ (i - 1)) % 256]

\* String::as_bytes of the short names the corpus uses
as_bytes(short_name) ==
    CASE short_name = "" -> <<>>
      [] short_name = "a" -> <<97>>
      [] short_name = "b" -> <<98>>
      [] short_name = "ab" -> <<97, 98>>

\* write_all of one chunk after the other, chunks lo..hi
RECURSIVE WriteAllRange(_, _, _)
WriteAllRange(chunks, lo, hi) ==
    IF lo > hi THEN <<>>
    ELSE IF lo = hi THEN chunks[lo]
    ELSE LET mid == (lo + hi) \div 2
         IN  WriteAllRange(chunks, lo, mid) \o WriteAllRange(chunks, mid + 1, hi)

WriteAll(chunks) == WriteAllRange(chunks, 1, Len(chunks))

\* main.rs:148-159; a coordinate is written as the four bytes of its f32,
\* which the model holds as the integer of its grid cell
node_as_bytes(node) ==
    to_le_bytes(node.id, 8)
    \o to_le_bytes(node.lat, 4)
    \o to_le_bytes(node.long, 4)
    \o to_le_bytes(Len(as_bytes(node.short_name)), 4)
    \o as_bytes(node.short_name)

\* main.rs:161-171
period_as_bytes(period) ==
    to_le_bytes(period.from, 4)
    \o to_le_bytes(period.to, 4)
    \o to_le_bytes(Len(period.valid_day), 4)
    \o period.valid_day

\* a writer that puts the departure before the arrival
JourneyAsBytesDepartureFirst(journey) ==
    to_le_bytes(journey.departure, 2)
    \o to_le_bytes(journey.arrival, 2)
    \o to_le_bytes(U16(journey.operating_period), 2)

\* main.rs:185-187; `journey.operating_period as u16` keeps the low 16 bits
\* of the usize
journey_as_bytes(journey) ==
    to_le_bytes(journey.arrival, 2)
    \o to_le_bytes(journey.departure, 2)
    \o to_le_bytes(U16(journey.operating_period), 2)

\* main.rs:173-195
edge_as_bytes(edge) ==
    LET journeys == edge.timetable.journeys
        periods == WriteAll([i \in DOMAIN edge.timetable.periods |->
                                period_as_bytes(edge.timetable.periods[i])])
    IN  to_le_bytes(edge.start_node, 4)
        \o to_le_bytes(edge.end_node, 4)
        \o to_le_bytes(edge.walk_seconds, 2)
        \o to_le_bytes(Len(journeys) * 6, 4)
        \o WriteAll([i \in DOMAIN journeys |-> journey_as_bytes(journeys[i])])
        \o to_le_bytes(Len(periods), 4)
        \o periods

\* main.rs:197-216: the bytes of graph.bin for the nodes and the edges in the
\* order of their vectors
dump_binary(g_nodes, g_edges) ==
    to_le_bytes(Len(g_nodes), 4)
    \o WriteAll([i \in DOMAIN g_nodes |-> node_as_bytes(g_nodes[i])])
    \o to_le_bytes(Len(g_edges), 4)
    \o WriteAll([i \in DOMAIN g_edges |-> edge_as_bytes(g_edges[i])])

\* the orders graph.edges may have: into_values yields the edges of the map
\* in no particular order
EdgeOrders(bag) ==
    {order \in [1..BagCardinality(bag) -> BagToSet(bag)] :
        \A e \in BagToSet(bag) :
            Cardinality({i \in DOMAIN order : order[i] = e}) = bag[e]}

\* main.rs:147-216; `file` keeps the order the edges were written in beside
\* the bytes
Dump ==
    /\ pc = "done"
    /\ graph # <<>>
    /\ \E order \in EdgeOrders(graph[1].edges) :
           file' = << [edges |-> order, bytes |-> dump_binary(graph[1].nodes, order)] >>
    /\ pc' = "dumped"
    /\ UNCHANGED <<text, decoded, documents, data, walk_seconds, nodeVars, edgeVars>>

MaxEdges == 2

\* the node vectors of the graphs that are written
DumpNodeLayouts ==
    { <<>>,
      << Node(1, "a", 100, 100) >>,
      << Node(1, "a", 100, 100), Node(6, "ab", 160, 100) >>,
      << Node(7, "", 220, 100), Node(1, "b", 100, 100) >> }

\* edges between the first two nodes: walk-only edges, edges whose journeys
\* were all filtered out, and edges with journeys, after the remap
DumpEdgePool ==
    LET pa == OperatingPeriod(220101, 220131, <<127>>)
        pb == OperatingPeriod(220201, 220228, <<127, 3>>)
        p0 == OperatingPeriod(220301, 220301, <<>>)
        j(departure, arrival, op) ==
            Journey(departure, arrival, "bus", op, "L", "A", <<0, 0>>)
    IN  { Edge(0, 1, DefaultTimetable, 120),
          Edge(1, 0, DefaultTimetable, 120),
          Edge(0, 0, DefaultTimetable, U16Max),
          Edge(0, 1, Timetable(<< j(480, 485, 0) >>, << pa >>), U16Max),
          Edge(0, 1, Timetable(<< j(1499, 1500, 0) >>, << pb >>), 700),
          Edge(1, 0, Timetable(<< j(540, 541, 0), j(600, 601, 1), j(660, 661, 0) >>,
                               << pb, pa >>), U16Max),
          Edge(1, 0, Timetable(<< j(300, 302, 0) >>, << p0 >>), 30) }

\* an edge that carries one journey for each of U16Max + 2 operating periods
WideEdge ==
    Edge(0, 1,
         Timetable([i \in 1..(U16Max + 2) |->
                       Journey(i % 1440, (i % 1440) + 5, "bus", i - 1, "L", "A", <<0, 0>>)],
                   [i \in 1..(U16Max + 2) |->
                       OperatingPeriod(220101, 220131,
                                       IF i % 2 = 0 THEN <<127>> ELSE <<127, 3>>)]),
         U16Max)

\* the graphs that are written: edges with distinct keys between nodes of the
\* graph
DumpGraphs ==
    { [nodes |-> ns, edges |-> SetToBag(es)] :
        ns \in DumpNodeLayouts,
        es \in {es \in SUBSET DumpEdgePool :
                   /\ Cardinality(es) <= MaxEdges
                   /\ \A e \in es : e.start_node < 2 /\ e.end_node < 2
                   /\ \A e, f \in es :
                          e.start_node = f.start_node /\ e.end_node = f.end_node => e = f} }

InitDump ==
    /\ graph \in { <<g>> : g \in {g \in DumpGraphs :
                                     \A e \in BagToSet(g.edges) :
                                         /\ e.start_node < Len(g.nodes)
                                         /\ e.end_node < Len(g.nodes)} }
                 \cup { << [nodes |-> << Node(1, "a", 100, 100), Node(6, "ab", 160, 100) >>,
                            edges |-> SetToBag({WideEdge})] >> }
    /\ text = NoText /\ decoded = <<>> /\ file = <<>>
    /\ documents = <<>>
    /\ data = <<>>
    /\ walk_seconds = <<>>
    /\ pc = "done"
    /\ nodes_by_name = EmptyMap
    /\ name = ""
    /\ tree = <<>>
    /\ nodes = <<>>
    /\ ref_map = EmptyMap
    /\ id_map = EmptyMap
    /\ clusters = <<>>
    /\ parts = <<>>
    /\ edges = EmptyMap
    /\ walk_idx = 0
    /\ unfiltered = EmptyMap
    /\ unmapped = EmptyMap

NextDump == Dump

SpecDump == InitDump /\ [][NextDump]_vars

----------------------------------------------------------------------------
(* Properties *)

Built == pc \in {"reduce", "overlay", "filtered", "remapped", "done"}

\* every edge held anywhere in the run: in the maps awaiting `reduce`, in
\* `edges`, in the graph returned
EdgesHeld ==
    UNION {{parts[i][k] : k \in DOMAIN parts[i]} : i \in DOMAIN parts}
    \cup {edges[k] : k \in DOMAIN edges}
    \cup (IF pc = "done" THEN BagToSet(graph[1].edges) ELSE {})

GraphEdges == BagToSet(graph[1].edges)

\* C1: in every graph returned, each journey's operating_period is an index
\* into the periods of its own edge (and so it is from the remap on).
C1_OperatingPeriodInRange ==
    /\ pc \in {"remapped", "done"} =>
          \A k \in DOMAIN edges : \A i \in DOMAIN edges[k].timetable.journeys :
             edges[k].timetable.journeys[i].operating_period
                < Len(edges[k].timetable.periods)
    /\ pc = "done" =>
          \A e \in GraphEdges : \A i \in DOMAIN e.timetable.journeys :
             e.timetable.journeys[i].operating_period < Len(e.timetable.periods)

\* a graph is returned with an edge that has two periods and a journey on the
\* second, beside an edge without journeys
C1_Witness ==
    /\ pc = "done"
    /\ \E e \in GraphEdges :
          /\ Len(e.timetable.periods) = 2
          /\ \E i \in DOMAIN e.timetable.journeys :
                e.timetable.journeys[i].operating_period = 1
    /\ \E e \in GraphEdges : e.timetable.journeys = <<>>

\* C2: every edge, made from a journey pair or from a walk entry, names two
\* nodes of Nodes.vec.
C2_EdgeNodesInRange ==
    Built => \A e \in EdgesHeld : e.start_node < Len(nodes) /\ e.end_node < Len(nodes)

C2_Witness ==
    /\ pc = "done"
    /\ \E e \in GraphEdges : e.timetable.journeys # <<>> /\ e.walk_seconds = U16Max
    /\ \E e \in GraphEdges : e.timetable.journeys = <<>> /\ e.walk_seconds # U16Max

\* C3: the (start_node, end_node) pairs of the edges are pairwise distinct,
\* and every edge carries the key it is stored under.
C3_EdgeKeysDistinct ==
    /\ \A i \in DOMAIN parts : \A k \in DOMAIN parts[i] :
          parts[i][k].start_node = k[1] /\ parts[i][k].end_node = k[2]
    /\ \A k \in DOMAIN edges : edges[k].start_node = k[1] /\ edges[k].end_node = k[2]
    /\ pc = "done" =>
          /\ \A e \in GraphEdges : CopiesIn(e, graph[1].edges) = 1
          /\ \A e1, e2 \in GraphEdges :
                (e1.start_node = e2.start_node /\ e1.end_node = e2.end_node) => e1 = e2

\* a graph is returned in which a walk entry made the reverse edge of a pair
\* of different nodes and two service journeys were merged into one edge
C3_Witness ==
    /\ pc = "done"
    /\ \E e \in GraphEdges :
          /\ e.start_node # e.end_node
          /\ e.timetable.journeys = <<>>
          /\ e.walk_seconds # U16Max
    /\ \E e \in GraphEdges : \E i, j \in DOMAIN e.timetable.journeys :
          e.timetable.journeys[i].from # e.timetable.journeys[j].from

\* C4: clustering does not depend on the order of the input documents: the
\* corpus with its documents in the other order gives the same set of node
\* ids.
C4_ShuffleSameNodeIds ==
    pc = "nodes" =>
       LET shuffled == NodesFromData(RetainStops(<<data[2], data[1]>>))
       IN  {nodes[i].id : i \in DOMAIN nodes}
              = {shuffled.nodes[i].id : i \in DOMAIN shuffled.nodes}

\* every (document, stop) position of the corpus
Occurrences == Range(AllIndices(data, Len(data)))

\* the nodes (1-based) whose cluster holds the stop at a position
ClustersOf(occ) ==
    {c \in DOMAIN clusters :
        \E i \in DOMAIN clusters[c] :
           clusters[c][i].data = occ.data /\ clusters[c][i].stop = occ.stop}

\* the nodes (1-based) whose cluster holds a stop with the id
ClustersWithId(id) ==
    {c \in DOMAIN clusters :
        \E i \in DOMAIN clusters[c] : StopAt(data, clusters[c][i]).id = id}

\* C5 as claimed: every stop that passed the bounding-box filter is in
\* exactly one cluster and ref_map maps its id to that cluster's node index.
C5_RefMapNamesOwnCluster ==
    pc = "nodes" =>
       \A occ \in Occurrences :
          /\ Cardinality(ClustersOf(occ)) = 1
          /\ StopAt(data, occ).id \in DOMAIN ref_map
          /\ ref_map[StopAt(data, occ).id].node + 1 \in ClustersOf(occ)

\* C5 as amended: every stop that passed the bounding-box filter is in
\* exactly one cluster, and ref_map maps its id to a stop with that id and to
\* the node index of that stop's cluster, which is the cluster extracted last
\* among those holding a stop with the id; so it is the stop's own cluster
\* whenever every stop with its id lies in one cluster.
C5_RefMapNamesLastCluster ==
    pc = "nodes" =>
       \A occ \in Occurrences :
          LET id == StopAt(data, occ).id
          IN  /\ Cardinality(ClustersOf(occ)) = 1
              /\ id \in DOMAIN ref_map
              /\ StopAt(data, ref_map[id]).id = id
              /\ ref_map[id].node + 1 \in ClustersOf(ref_map[id])
              /\ \A c \in ClustersWithId(id) : c <= ref_map[id].node + 1
              /\ Cardinality(ClustersWithId(id)) = 1
                    => ref_map[id].node + 1 \in ClustersOf(occ)

\* the clustering is over and one stop id lies in two clusters
C5_Witness ==
    /\ pc = "nodes"
    /\ \E occ \in Occurrences : Cardinality(ClustersWithId(StopAt(data, occ).id)) = 2
    /\ \E occ \in Occurrences : Cardinality(ClustersWithId(StopAt(data, occ).id)) = 1

RECURSIVE Sum(_, _)
Sum(s, k) == IF k = 0 THEN 0 ELSE Sum(s, k - 1) + s[k]

\* the arithmetic mean of a non-empty sequence of numbers, in grid cells
Mean(s) == Sum(s, Len(s)) \div Len(s)

\* C6: every node lies at the arithmetic mean of the coordinates of the
\* stops of its cluster.
C6_NodeAtArithmeticMean ==
    \A n \in DOMAIN nodes :
       /\ nodes[n].long = Mean([i \in DOMAIN clusters[n] |-> StopAt(data, clusters[n][i]).long])
       /\ nodes[n].lat = Mean([i \in DOMAIN clusters[n] |-> StopAt(data, clusters[n][i]).lat])

\* a walk entry update_walk acts on: both ids are node ids and the two nodes
\* are at most 1 km (100 cells) apart
WalkAccepted(w) ==
    /\ w.start \in DOMAIN id_map
    /\ w.end \in DOMAIN id_map
    /\ LET a == At(nodes, id_map[w.start])
           b == At(nodes, id_map[w.end])
       IN  (a.long - b.long) * (a.long - b.long) + (a.lat - b.lat) * (a.lat - b.lat)
              <= 100 * 100

SamePair(v, w) ==
    {id_map[v.start], id_map[v.end]} = {id_map[w.start], id_map[w.end]}

\* seconds of a duration in tenths of a second, cut off and rounded
Truncated(d) == IF d < 0 THEN 0 ELSE IF d \div 10 > 65535 THEN 65535 ELSE d \div 10

Rounded(d) ==
    IF d < 0 THEN 0 ELSE IF (d + 5) \div 10 > 65535 THEN 65535 ELSE (d + 5) \div 10

HasWalkEdge(s, e, secs) ==
    \E f \in GraphEdges : f.start_node = s /\ f.end_node = e /\ f.walk_seconds = secs

\* C7 as claimed: for every walk entry (A, B, d) whose ids resolve and whose
\* nodes are at most 1 km apart, the graph returned has the edges (A,B) and
\* (B,A), both with walk_seconds = round(d), saturating.
C7_WalkSecondsRounded ==
    pc = "done" =>
       \A i \in DOMAIN walk_seconds :
          WalkAccepted(walk_seconds[i]) =>
             LET w == walk_seconds[i]
             IN  /\ HasWalkEdge(id_map[w.start], id_map[w.end], Rounded(w.duration))
                 /\ HasWalkEdge(id_map[w.end], id_map[w.start], Rounded(w.duration))

\* C7 as amended: for every walk entry (A, B, d) whose ids resolve and whose
\* nodes are at most 1 km apart, the edges (A,B) and (B,A) exist from the
\* moment the entry is applied, and in the graph returned, and both carry the
\* duration, cut off to whole seconds and saturated to u16, of the last such
\* entry applied so far that names the two nodes in either direction.
C7_WalkSecondsOfLastEntry ==
    pc \in {"overlay", "filtered", "remapped", "done"} =>
       \A i \in 1..walk_idx :
          WalkAccepted(walk_seconds[i]) =>
             LET w    == walk_seconds[i]
                 s    == id_map[w.start]
                 e    == id_map[w.end]
                 same == {j \in 1..walk_idx :
                             WalkAccepted(walk_seconds[j]) /\ SamePair(walk_seconds[j], w)}
                 last == CHOOSE j \in same : \A m \in same : m <= j
                 secs == Truncated(walk_seconds[last].duration)
             IN  /\ <<s, e>> \in DOMAIN edges /\ edges[<<s, e>>].walk_seconds = secs
                 /\ <<e, s>> \in DOMAIN edges /\ edges[<<e, s>>].walk_seconds = secs
                 /\ pc = "done" => HasWalkEdge(s, e, secs) /\ HasWalkEdge(e, s, secs)

\* a graph is returned after two entries for one pair of nodes were applied,
\* with different durations, the later one not a whole number of seconds
C7_Witness ==
    /\ pc = "done"
    /\ \E i, j \in DOMAIN walk_seconds :
          /\ i < j
          /\ WalkAccepted(walk_seconds[i]) /\ WalkAccepted(walk_seconds[j])
          /\ SamePair(walk_seconds[i], walk_seconds[j])
          /\ Truncated(walk_seconds[i].duration) # Truncated(walk_seconds[j].duration)
          /\ Truncated(walk_seconds[j].duration) # Rounded(walk_seconds[j].duration)
          /\ HasWalkEdge(id_map[walk_seconds[j].start], id_map[walk_seconds[j].end],
                         Truncated(walk_seconds[j].duration))

\* minutes = arrival - departure, plus 1440 when arrival < departure
ClaimedMinutes(j) ==
    IF j.arrival < j.departure THEN j.arrival + 1440 - j.departure
    ELSE j.arrival - j.departure

\* D / (minutes / 60) < 325 or (minutes < 3 and D < 3), for D the root of d2
\* in units of 10 m: 60 * D < 325 * minutes is 6 * sqrt(d2) < 3250 * minutes
ClaimedRetain(j, d2) ==
    \/ ClaimedMinutes(j) > 0 /\ ISqrt(36 * d2) < 3250 * ClaimedMinutes(j)
    \/ ClaimedMinutes(j) < 3 /\ d2 < 300 * 300

\* the squared distance of the two nodes of an edge key
KeyDistance(k) ==
    LET a == At(nodes, k[1])
        b == At(nodes, k[2])
    IN  (a.long - b.long) * (a.long - b.long) + (a.lat - b.lat) * (a.lat - b.lat)

\* C8: filter_journeys keeps a journey of an edge whose nodes are D km apart
\* iff D / (minutes / 60) < 325 or (minutes < 3 and D < 3), with minutes =
\* arrival - departure, plus 1440 when arrival < departure, and the u16
\* arithmetic neither underflows nor overflows for the times the minute codec
\* produces: the filter does not stop the run and minutes is never negative.
C8_FilterRetainsIff ==
    /\ pc = "filtered" =>
          \A k \in DOMAIN unfiltered :
             edges[k].timetable.journeys =
                SelectSeq(unfiltered[k].timetable.journeys,
                          LAMBDA j : ClaimedRetain(j, KeyDistance(k)))
    /\ \A k \in DOMAIN unfiltered : \A i \in DOMAIN unfiltered[k].timetable.journeys :
          /\ ClaimedMinutes(unfiltered[k].timetable.journeys[i]) >= 0
          /\ ClaimedMinutes(unfiltered[k].timetable.journeys[i]) < 65536

\* the journeys of an edge as the period remap finds them: the survivors of
\* the speed filter, with global period indices
Survivors(k) == unmapped[k].timetable.journeys

\* the number of distinct globals seen before the first journey that carries
\* the global of journey i
FirstSeenRank(js, i) ==
    LET first == CHOOSE m \in 1..i :
                    /\ js[m].operating_period = js[i].operating_period
                    /\ \A n \in 1..(m - 1) : js[n].operating_period # js[i].operating_period
    IN  Cardinality({js[n].operating_period : n \in 1..(first - 1)})

\* C9: on every edge the distinct global period indices of the journeys that
\* survive the speed filter get the local indices 0, 1, 2, ... in first-seen
\* order of the journey list; periods has one entry per distinct global, so
\* every entry of periods is referenced by a journey.
C9_LocalPeriodsFirstSeen ==
    pc \in {"remapped", "done"} =>
       /\ DOMAIN edges = DOMAIN unmapped
       /\ \A k \in DOMAIN edges :
             LET js  == Survivors(k)
                 out == edges[k].timetable
             IN  /\ Len(out.journeys) = Len(js)
                 /\ \A i \in DOMAIN js :
                       out.journeys[i].operating_period = FirstSeenRank(js, i)
                 /\ Len(out.periods) = Cardinality({js[i].operating_period : i \in DOMAIN js})
                 /\ \A l \in 0..(Len(out.periods) - 1) :
                       \E i \in DOMAIN out.journeys : out.journeys[i].operating_period = l
                 /\ pc = "done" => CopiesIn(edges[k], graph[1].edges) = 1

\* a graph is returned with an edge whose three journeys carried the globals
\* g, g, h and now carry 0, 0, 1 over two periods
C9_Witness ==
    /\ pc = "done"
    /\ \E k \in DOMAIN edges :
          /\ Len(Survivors(k)) = 3
          /\ Survivors(k)[1].operating_period = Survivors(k)[2].operating_period
          /\ Survivors(k)[1].operating_period # Survivors(k)[3].operating_period
          /\ [i \in 1..3 |-> edges[k].timetable.journeys[i].operating_period] = <<0, 0, 1>>
          /\ Len(edges[k].timetable.periods) = 2
          /\ edges[k] \in GraphEdges

\* the filter dropped the only journey of a period from an edge that keeps
\* another journey, and the graph is returned
C9_FilteredPeriodGone ==
    /\ pc = "done"
    /\ \E k \in DOMAIN edges :
          /\ Len(unfiltered[k].timetable.journeys) = 2
          /\ Len(edges[k].timetable.journeys) = 1
          /\ Len(edges[k].timetable.periods) = 1
          /\ unfiltered[k].timetable.journeys[1].operating_period
                # unfiltered[k].timetable.journeys[2].operating_period

AllPeriods == FlatMap(data, "operating_periods", Len(data))

AllAssignments == FlatMap(data, "day_type_assignments", Len(data))

\* the ServiceJourney a journey of the graph was made from
SourceJourney(j) == At(At(data, j.from[1]).service_journeys, j.from[2])

\* day_type_assignments[day_type].operating_period
AssignedPeriodId(day_type) ==
    LET i == CHOOSE i \in DOMAIN AllAssignments :
                /\ AllAssignments[i].day_type = day_type
                /\ \A m \in DOMAIN AllAssignments :
                      AllAssignments[m].day_type = day_type => m <= i
    IN  AllAssignments[i].operating_period

CarriesPeriodOf(timetable, j) ==
    \E n \in DOMAIN AllPeriods :
       /\ AllPeriods[n].id = AssignedPeriodId(SourceJourney(j).day_type)
       /\ At(timetable.periods, j.operating_period).from = AllPeriods[n].from
       /\ At(timetable.periods, j.operating_period).to = AllPeriods[n].to
       /\ At(timetable.periods, j.operating_period).valid_day = AllPeriods[n].valid_day_bits

\* C10: for every journey of the graph, made from ServiceJourney j, the
\* entry periods[journey.operating_period] of its edge carries from, to and
\* valid_day of a UicOperatingPeriod whose id is
\* day_type_assignments[j.day_type].operating_period; and for every id of
\* period_map, lookup_operating_period(data, period_map[id]) is a period with
\* that id, whatever the documents' lengths.
C10_PeriodOfDayType ==
    /\ pc \in {"remapped", "done"} =>
          \A k \in DOMAIN edges : \A i \in DOMAIN edges[k].timetable.journeys :
             CarriesPeriodOf(edges[k].timetable, edges[k].timetable.journeys[i])
    /\ pc = "done" =>
          \A e \in GraphEdges : \A i \in DOMAIN e.timetable.journeys :
             CarriesPeriodOf(e.timetable, e.timetable.journeys[i])
    /\ \A id \in DOMAIN PeriodMap(data) :
          /\ lookup_operating_period(data, PeriodMap(data)[id]) # <<>>
          /\ lookup_operating_period(data, PeriodMap(data)[id])[1].id = id

\* a graph is returned from a corpus whose second document repeats a period
\* id of the first, with a journey of that id on an edge
C10_Witness ==
    /\ pc = "done"
    /\ \E m, n \in DOMAIN AllPeriods : m # n /\ AllPeriods[m].id = AllPeriods[n].id
    /\ Len(data[1].operating_periods) > 0 /\ Len(data[2].operating_periods) > 0
    /\ \E e \in GraphEdges : \E i \in DOMAIN e.timetable.journeys :
          /\ Cardinality({n \in DOMAIN AllPeriods :
                AllPeriods[n].id = AssignedPeriodId(SourceJourney(e.timetable.journeys[i]).day_type)}) = 2
          /\ CarriesPeriodOf(e.timetable, e.timetable.journeys[i])

\* the service journeys of the corpus, by (document, index)
Trips == Range(JourneyRefs(data, Len(data)))

TripAt(ref) == At(At(data, ref[1]).service_journeys, ref[2])

\* the stop points of all journey patterns, in corpus order
AllPoints ==
    LET patterns == FlatMap(data, "service_journey_patterns", Len(data))
    IN  Concat([i \in DOMAIN patterns |-> patterns[i].stops], Len(patterns))

\* first hop: the StopPointInJourneyPattern ref is one of a pattern
PointKnown(point) == \E i \in DOMAIN AllPoints : AllPoints[i].id = point

\* second hop: the pattern's scheduled stop is a stop of the corpus after the
\* bounding-box filter
StopKnown(point) ==
    \E i \in DOMAIN AllPoints :
       /\ AllPoints[i].id = point
       /\ \A m \in 1..(i - 1) : AllPoints[m].id # point
       /\ \E occ \in Occurrences :
             StopAt(data, occ).id = AllPoints[i].scheduled_stop_point

PointResolves(point) == PointKnown(point) /\ StopKnown(point)

\* the adjacent pairs of a service journey, by the position of the first
PairsOf(ref) == 1..(Len(TripAt(ref).passing_times) - 1)

PairResolves(ref, i) ==
    /\ PointResolves(TripAt(ref).passing_times[i].stop_point_in_journey_pattern)
    /\ PointResolves(TripAt(ref).passing_times[i + 1].stop_point_in_journey_pattern)

\* the journeys on the edges held that pair i of a service journey made
EmittedFor(ref, i) ==
    {<<e, n>> \in {<<e, n>> \in EdgesHeld \X (1..8) : n \in DOMAIN e.timetable.journeys} :
        /\ e.timetable.journeys[n].from = ref
        /\ e.timetable.journeys[n].departure = TripAt(ref).passing_times[i].departure
        /\ e.timetable.journeys[n].arrival = TripAt(ref).passing_times[i + 1].arrival}

\* every service journey has a day type with an assignment whose period
\* exists
NoMissingReference ==
    \A ref \in Trips :
       \E i \in DOMAIN AllAssignments :
          /\ AllAssignments[i].day_type = TripAt(ref).day_type
          /\ \E n \in DOMAIN AllPeriods : AllPeriods[n].id = AllAssignments[i].operating_period

Mapped == pc \in {"reduce", "overlay"}

\* C11: an adjacent pair with a stop that does not resolve at either hop
\* (unknown StopPointInJourneyPattern ref, or a stop removed by the
\* bounding-box filter) is skipped: it emits no journey, the run does not
\* abort, and the pairs that resolve are still emitted.
C11_UnresolvedPairSkipped ==
    NoMissingReference =>
       /\ pc # "abort"
       /\ Mapped =>
             \A ref \in Trips : \A i \in PairsOf(ref) :
                Cardinality(EmittedFor(ref, i)) = IF PairResolves(ref, i) THEN 1 ELSE 0

\* the same, for corpora in which every StopPointInJourneyPattern ref is one
\* of a pattern: only the second hop misses
C11_SecondHopSkipped ==
    (NoMissingReference /\ \A ref \in Trips : \A i \in DOMAIN TripAt(ref).passing_times :
        PointKnown(TripAt(ref).passing_times[i].stop_point_in_journey_pattern)) =>
       /\ pc # "abort"
       /\ Mapped =>
             \A ref \in Trips : \A i \in PairsOf(ref) :
                Cardinality(EmittedFor(ref, i)) = IF PairResolves(ref, i) THEN 1 ELSE 0

\* the day type of the service journey has no assignment, or the assignment
\* names a period id no document has
MissingReference(ref) ==
    \/ \A i \in DOMAIN AllAssignments : AllAssignments[i].day_type # TripAt(ref).day_type
    \/ /\ \E i \in DOMAIN AllAssignments : AllAssignments[i].day_type = TripAt(ref).day_type
       /\ \A n \in DOMAIN AllPeriods :
             AllPeriods[n].id # AssignedPeriodId(TripAt(ref).day_type)

\* to_edges has not run yet, or the run was aborted; there is no graph
NoGraph == pc \in {"parse", "index", "cluster", "nodes", "abort"} /\ graph = <<>>

AllPointsKnown ==
    \A ref \in Trips : \A i \in DOMAIN TripAt(ref).passing_times :
       PointKnown(TripAt(ref).passing_times[i].stop_point_in_journey_pattern)

\* C12 as claimed: whenever a service journey with at least one adjacent
\* pair has a day type without assignment, or with an assignment to a period
\* id that is absent, Graph::from_data aborts and returns no graph.
C12_MissingReferenceFatal ==
    (\E ref \in Trips : PairsOf(ref) # {} /\ MissingReference(ref)) => NoGraph

\* C12 as amended: whenever a service journey has an adjacent pair whose two
\* stops resolve, and its day type has no assignment or is assigned a period
\* id that is absent, Graph::from_data aborts and returns no graph; a
\* service journey none of whose pairs resolves is passed over without its
\* day type being looked up, so that a corpus in which these are the only
\* ones with a missing reference, and every stop point ref is known, does
\* not abort in to_edges.
C12_MissingReferenceFatalWhenResolved ==
    /\ (\E ref \in Trips : \E i \in PairsOf(ref) :
           PairResolves(ref, i) /\ MissingReference(ref)) => NoGraph
    /\ (/\ AllPointsKnown
        /\ \A ref \in Trips : \A i \in PairsOf(ref) :
              PairResolves(ref, i) => ~MissingReference(ref))
          => pc # "abort"

\* the run was aborted for a service journey of day type 3, which has no
\* assignment, with a pair that resolves, every stop point ref being known
\* and every other day type having its period
C12_Witness ==
    /\ pc = "abort"
    /\ AllPointsKnown
    /\ \E ref \in Trips :
          /\ \A i \in DOMAIN AllAssignments : AllAssignments[i].day_type # TripAt(ref).day_type
          /\ \E i \in PairsOf(ref) : PairResolves(ref, i)
    /\ \A ref \in Trips :
          (\E i \in DOMAIN AllAssignments : AllAssignments[i].day_type = TripAt(ref).day_type)
             => ~MissingReference(ref)

\* the run was aborted for a service journey whose day type is assigned
\* period 6, which no document has
C12_AbsentPeriodFatal ==
    /\ pc = "abort"
    /\ AllPointsKnown
    /\ \A ref \in Trips :
          \E i \in DOMAIN AllAssignments : AllAssignments[i].day_type = TripAt(ref).day_type
    /\ \E ref \in Trips : MissingReference(ref) /\ \E i \in PairsOf(ref) : PairResolves(ref, i)

\* the files of the archive, in order
RECURSIVE Files(_, _)
Files(docs, k) ==
    IF k = 0 THEN <<>>
    ELSE IF docs[k].is_dir THEN Files(docs, k - 1)
    ELSE Append(Files(docs, k - 1), docs[k])

\* what the extraction owes for a file: nothing of a malformed one, the
\* content of a sound one
Owed(doc) == IF doc.defects = {} THEN doc.content ELSE DefaultNetexData

\* C13: a failure while extracting one document, whatever element of it is
\* malformed, is confined to it: the document contributes no records, no
\* panic ends the run, and the records of every other document are
\* aggregated unchanged.
C13_FailureConfined ==
    /\ pc # "abort"
    /\ pc = "parse" =>
          data = [i \in DOMAIN Files(documents, Len(documents)) |->
                     Owed(Files(documents, Len(documents))[i])]

\* the same where no ServiceJourney lacks one of the elements that
\* parse_service_journey unwraps
C13_ErrorConfined ==
    (\A i \in DOMAIN documents : "journey" \notin documents[i].defects) =>
       /\ pc # "abort"
       /\ pc = "parse" =>
             data = [i \in DOMAIN Files(documents, Len(documents)) |->
                        Owed(Files(documents, Len(documents))[i])]

\* C14: for every text "HH:MM" or "HH:MM:SS" of ASCII digits parse_minutes
\* returns d0 * 600 + d1 * 60 + d3 * 10 + d4, "12:34" gives 754, and the
\* seconds make no difference.
C14_MinuteCodec ==
    (text.codec = "minutes" /\ decoded # <<>>) =>
       LET d(i) == At(text.bytes, i) - 48
       IN  /\ decoded[1] = d(0) * 600 + d(1) * 60 + d(3) * 10 + d(4)
           /\ decoded[1] = parse_minutes(SubSeq(text.bytes, 1, 5))
           /\ SubSeq(text.bytes, 1, 5) = <<49, 50, 58, 51, 52>> => decoded[1] = 754

\* "12:34:59" was parsed to 754
C14_Witness ==
    /\ text.codec = "minutes"
    /\ text.bytes = <<49, 50, 58, 51, 52, 58, 53, 57>>
    /\ decoded = <<754>>

\* bit i of a byte, the least significant being bit 0
BitOf(byte, i) == (byte \div 2 ^ i) % 2

\* C15: for every text s over '0' and '1', the empty one and those of whole
\* groups included, parse_day_bits(s) has ceil(len(s) / 8) bytes and bit i of
\* byte k is character 8k + i of s, or 0 past its end; "1111111011" gives
\* [127, 3].
C15_DayBitCodec ==
    (text.codec = "day_bits" /\ decoded # <<>>) =>
       LET s   == text.bytes
           out == decoded[1]
       IN  /\ Len(out) = (Len(s) + 7) \div 8
           /\ \A k \in 0..(Len(out) - 1) : \A i \in 0..7 :
                 BitOf(At(out, k), i)
                    = IF 8 * k + i < Len(s) THEN At(s, 8 * k + i) - 48 ELSE 0
           /\ \A k \in 0..(Len(out) - 1) : At(out, k) < 256
           /\ s = <<49, 49, 49, 49, 49, 49, 49, 48, 49, 49>> => out = <<127, 3>>

\* "1111111011" was parsed to [127, 3]
C15_Witness ==
    /\ text.codec = "day_bits"
    /\ text.bytes = <<49, 49, 49, 49, 49, 49, 49, 48, 49, 49>>
    /\ decoded = << <<127, 3>> >>

\* the empty text was parsed to no bytes, or one of eight characters to one
C15_WholeGroups ==
    /\ text.codec = "day_bits"
    /\ \/ text.bytes = <<>> /\ decoded = << <<>> >>
       \/ Len(text.bytes) = 8 /\ decoded # <<>> /\ Len(decoded[1]) = 1

----------------------------------------------------------------------------
(* C16: a reader of the layout *)

\* the little-endian integer of n bytes at the 0-based offset off; the bytes
\* past the fourth are zero in the model
ReadLe(bytes, off, n) ==
    IF n = 2 THEN bytes[off + 1] + 256 * bytes[off + 2]
    ELSE bytes[off + 1] + 256 * bytes[off + 2] + 65536 * bytes[off + 3]
         + 16777216 * bytes[off + 4]

ReadNode(bytes, off) ==
    LET name_len == ReadLe(bytes, off + 16, 4)
    IN  [item |-> [id |-> ReadLe(bytes, off, 8),
                   lat |-> ReadLe(bytes, off + 8, 4),
                   long |-> ReadLe(bytes, off + 12, 4),
                   name |-> SubSeq(bytes, off + 21, off + 20 + name_len)],
         off |-> off + 20 + name_len]

RECURSIVE ReadNodes(_, _, _)
ReadNodes(bytes, off, count) ==
    IF count = 0 THEN [items |-> <<>>, off |-> off]
    ELSE LET first == ReadNode(bytes, off)
             rest == ReadNodes(bytes, first.off, count - 1)
         IN  [items |-> <<first.item>> \o rest.items, off |-> rest.off]

ReadJourney(bytes, off) ==
    [arrival |-> ReadLe(bytes, off, 2),
     departure |-> ReadLe(bytes, off + 2, 2),
     operating_period |-> ReadLe(bytes, off + 4, 2)]

ReadPeriod(bytes, off) ==
    LET valid_day_len == ReadLe(bytes, off + 8, 4)
    IN  [item |-> [from |-> ReadLe(bytes, off, 4),
                   to |-> ReadLe(bytes, off + 4, 4),
                   valid_day |-> SubSeq(bytes, off + 13, off + 12 + valid_day_len)],
         off |-> off + 12 + valid_day_len]

\* the periods from off up to end, at most n of them
RECURSIVE ReadPeriodsUpTo(_, _, _, _)
ReadPeriodsUpTo(bytes, off, end, n) ==
    IF off >= end \/ n = 0 THEN [items |-> <<>>, off |-> off]
    ELSE IF n = 1
         THEN LET one == ReadPeriod(bytes, off)
              IN  [items |-> <<one.item>>, off |-> one.off]
         ELSE LET left == ReadPeriodsUpTo(bytes, off, end, n \div 2)
                  right == ReadPeriodsUpTo(bytes, left.off, end, n - (n \div 2))
              IN  [items |-> left.items \o right.items, off |-> right.off]

\* a period takes twelve bytes at least, so a section of len bytes holds at
\* most len / 12 of them
ReadEdge(bytes, off) ==
    LET journey_section_len == ReadLe(bytes, off + 10, 4)
        periods_off == off + 14 + journey_section_len
        periods_section_len == ReadLe(bytes, periods_off, 4)
        periods == ReadPeriodsUpTo(bytes, periods_off + 4,
                                   periods_off + 4 + periods_section_len,
                                   periods_section_len \div 12)
    IN  [item |-> [start_node |-> ReadLe(bytes, off, 4),
                   end_node |-> ReadLe(bytes, off + 4, 4),
                   walk_seconds |-> ReadLe(bytes, off + 8, 2),
                   journey_section_len |-> journey_section_len,
                   journeys |-> [k \in 1..(journey_section_len \div 6) |->
                                    ReadJourney(bytes, off + 14 + 6 * (k - 1))],
                   periods_section_len |-> periods_section_len,
                   periods |-> periods.items],
         off |-> periods.off]

RECURSIVE ReadEdges(_, _, _)
ReadEdges(bytes, off, count) ==
    IF count = 0 THEN [items |-> <<>>, off |-> off]
    ELSE LET first == ReadEdge(bytes, off)
             rest == ReadEdges(bytes, first.off, count - 1)
         IN  [items |-> <<first.item>> \o rest.items, off |-> rest.off]

ReadGraph(bytes) ==
    LET ns == ReadNodes(bytes, 4, ReadLe(bytes, 0, 4))
        es == ReadEdges(bytes, ns.off + 4, ReadLe(bytes, ns.off, 4))
    IN  [nodes |-> ns.items, edges |-> es.items, off |-> es.off]

\* the sum of s[lo..hi]
RECURSIVE SumRange(_, _, _)
SumRange(s, lo, hi) ==
    IF lo > hi THEN 0
    ELSE IF lo = hi THEN s[lo]
    ELSE LET mid == (lo + hi) \div 2
         IN  SumRange(s, lo, mid) + SumRange(s, mid + 1, hi)

WrittenNode(node) ==
    [id |-> node.id, lat |-> node.lat, long |-> node.long,
     name |-> as_bytes(node.short_name)]

\* what the layout holds of an edge; Index(op) is the operating_period a
\* reader is to find
WrittenEdge(edge, Index(_)) ==
    [start_node |-> edge.start_node,
     end_node |-> edge.end_node,
     walk_seconds |-> edge.walk_seconds,
     journey_section_len |-> 6 * Len(edge.timetable.journeys),
     journeys |-> [k \in DOMAIN edge.timetable.journeys |->
                      [arrival |-> edge.timetable.journeys[k].arrival,
                       departure |-> edge.timetable.journeys[k].departure,
                       operating_period |->
                           Index(edge.timetable.journeys[k].operating_period)]],
     periods_section_len |-> SumRange([k \in DOMAIN edge.timetable.periods |->
                                         12 + Len(edge.timetable.periods[k].valid_day)],
                                      1, Len(edge.timetable.periods)),
     periods |-> edge.timetable.periods]

ReadsBack(Index(_)) ==
    LET read == ReadGraph(file[1].bytes)
    IN  /\ read.off = Len(file[1].bytes)
        /\ read.nodes = [i \in DOMAIN graph[1].nodes |-> WrittenNode(graph[1].nodes[i])]
        /\ read.edges = [i \in DOMAIN file[1].edges |-> WrittenEdge(file[1].edges[i], Index)]

SameIndex(op) == op

\* C16 as stated: a reader of the layout finds, in the bytes dump_binary
\* wrote, the nodes and the edges of the graph, every journey with its
\* operating_period, and the two section lengths are 6 times the number of
\* journeys and the sum of 12 + the length of valid_day over the periods
C16_ReadsBackTheGraph == pc = "dumped" => ReadsBack(SameIndex)

\* C16, amended: the same, with every operating_period read back modulo
\* 2^16, which is the index itself on an edge of at most 65536 periods
C16_ReadsBackLow16 == pc = "dumped" => ReadsBack(U16)

\* a written graph with an edge without journeys and periods beside an edge
\* with three journeys and two periods whose valid_day differ in length
C16_Witness ==
    /\ pc = "dumped"
    /\ Len(file[1].edges) = 2
    /\ \E i, k \in DOMAIN file[1].edges :
          /\ file[1].edges[i].timetable = DefaultTimetable
          /\ Len(file[1].edges[k].timetable.journeys) = 3
          /\ Len(file[1].edges[k].timetable.periods) = 2
    /\ ReadsBack(SameIndex)

\* a written edge with more than 65536 periods
C16_WideEdgeWritten ==
    /\ pc = "dumped"
    /\ \E i \in DOMAIN file[1].edges : Len(file[1].edges[i].timetable.periods) > U16Max + 1

----------------------------------------------------------------------------
(* C17 *)

\* the local maps to_edges returns, one for each service journey
EmittedMaps ==
    LET refs == JourneyRefs(data, Len(data))
    IN  [i \in DOMAIN refs |->
            ToEdges(JourneyTransformer(data), ref_map, TripAt(refs[i]), refs[i]).edges]

\* the maps the reduction holds: the operands not yet combined, then the result
HeldMaps == IF pc = "reduce" THEN parts ELSE <<edges>>

KeysOf(maps) == UNION {DOMAIN maps[i] : i \in DOMAIN maps}

\* the journeys the maps have under the key, map after map
JourneysAt(maps, key) ==
    Concat([i \in DOMAIN maps |->
               IF key \in DOMAIN maps[i] THEN maps[i][key].timetable.journeys ELSE <<>>],
           Len(maps))

Copies(s, x) == Cardinality({i \in DOMAIN s : s[i] = x})

\* C17: whatever operands the reduction has combined so far and in whatever
\* order, the maps it holds have the keys to_edges emitted, under every key
\* each emitted Journey as many times as it was emitted and no other, every
\* edge has walk_seconds = 0xFFFF before the walk overlay, and combining a
\* held map with the empty map on either side gives the map back
C17_ReduceOrderIndependent ==
    Mapped /\ walk_idx = 0 =>
        /\ KeysOf(HeldMaps) = KeysOf(EmittedMaps)
        /\ \A key \in KeysOf(EmittedMaps) \cup KeysOf(HeldMaps) :
              \A x \in Range(JourneysAt(EmittedMaps, key))
                       \cup Range(JourneysAt(HeldMaps, key)) :
                  Copies(JourneysAt(HeldMaps, key), x)
                      = Copies(JourneysAt(EmittedMaps, key), x)
        /\ \A i \in DOMAIN HeldMaps :
              /\ \A key \in DOMAIN HeldMaps[i] :
                    /\ HeldMaps[i][key].walk_seconds = U16Max
                    /\ HeldMaps[i][key].start_node = key[1]
                    /\ HeldMaps[i][key].end_node = key[2]
              /\ Reducer(EmptyMap, HeldMaps[i]) = HeldMaps[i]
              /\ Reducer(HeldMaps[i], EmptyMap) = HeldMaps[i]

\* the reduction is over and one edge has the journeys of two service journeys
C17_Witness ==
    /\ pc = "overlay"
    /\ walk_idx = 0
    /\ \E key \in DOMAIN edges :
          \E i, k \in DOMAIN edges[key].timetable.journeys :
              edges[key].timetable.journeys[i].from
                  # edges[key].timetable.journeys[k].from
    /\ C17_ReduceOrderIndependent

\* two of three operands combined: the two service journeys' maps before the
\* empty map joined them
C17_RightPairFirst ==
    /\ pc = "reduce"
    /\ Len(parts) = 2
    /\ parts[1] = EmptyMap
    /\ \E key \in DOMAIN parts[2] :
          \E i, k \in DOMAIN parts[2][key].timetable.journeys :
              parts[2][key].timetable.journeys[i].from
                  # parts[2][key].timetable.journeys[k].from

----------------------------------------------------------------------------
(* C18 *)

\* the node of the stop a passing time's point refers to
NodeOf(point) ==
    ref_map[JourneyTransformer(data).point_in_journey_to_stop_ref[point]].node

\* the edge key of the adjacent pair i of a service journey
KeyOf(ref, i) ==
    << NodeOf(TripAt(ref).passing_times[i].stop_point_in_journey_pattern),
       NodeOf(TripAt(ref).passing_times[i + 1].stop_point_in_journey_pattern) >>

ResolvedPairs(ref) == {i \in PairsOf(ref) : PairResolves(ref, i)}

\* the members of a set of numbers in rising order
Rising(S) ==
    [n \in 1..Cardinality(S) |-> CHOOSE i \in S : Cardinality({m \in S : m < i}) = n - 1]

\* departure and arrival of the journeys owed to a key by a service journey:
\* one for each resolved adjacent pair with that key, in passing-time order
OwedTimes(ref, key) ==
    LET pairs == Rising({i \in ResolvedPairs(ref) : KeyOf(ref, i) = key})
    IN  [n \in DOMAIN pairs |->
            [departure |-> TripAt(ref).passing_times[pairs[n]].departure,
             arrival |-> TripAt(ref).passing_times[pairs[n] + 1].arrival]]

Times(journeys) ==
    [n \in DOMAIN journeys |->
        [departure |-> journeys[n].departure, arrival |-> journeys[n].arrival]]

\* the map stage has returned and nothing is reduced yet: parts holds the
\* empty map and then the local map of each service journey
JustMapped ==
    pc = "reduce" /\ Len(parts) = Len(JourneyRefs(data, Len(data))) + 1

\* C18: the local map to_edges returns for a service journey has exactly
\* the keys (node(p[i]), node(p[i+1])) of its adjacent pairs whose two stops
\* resolve, and under each key one Journey for each such pair, with the
\* departure of p[i] and the arrival of p[i+1], in passing-time order; so it
\* has nothing for other pairs and is empty for fewer than two passing times
C18_OneJourneyPerAdjacentPair ==
    JustMapped =>
        \A k \in DOMAIN JourneyRefs(data, Len(data)) :
            LET ref == JourneyRefs(data, Len(data))[k]
                local_edges == parts[k + 1]
            IN  /\ DOMAIN local_edges = {KeyOf(ref, i) : i \in ResolvedPairs(ref)}
                /\ \A key \in DOMAIN local_edges :
                      /\ local_edges[key].start_node = key[1]
                      /\ local_edges[key].end_node = key[2]
                      /\ Times(local_edges[key].timetable.journeys) = OwedTimes(ref, key)
                      /\ \A n \in DOMAIN local_edges[key].timetable.journeys :
                            local_edges[key].timetable.journeys[n].from = ref
                /\ Len(TripAt(ref).passing_times) < 2 => local_edges = EmptyMap

\* a service journey of three passing times whose two pairs fall on one key,
\* beside a service journey with a single passing time
C18_Witness ==
    /\ JustMapped
    /\ \E k \in 2..Len(parts), key \in KeysOf(parts) :
          /\ key \in DOMAIN parts[k]
          /\ Len(parts[k][key].timetable.journeys) = 2
          /\ parts[k][key].timetable.journeys[1].departure
                < parts[k][key].timetable.journeys[2].departure
    /\ \E ref \in Trips : Len(TripAt(ref).passing_times) = 1
    /\ C18_OneJourneyPerAdjacentPair

\* a service journey of three passing times with one pair skipped and one
\* emitted
C18_SkippedBesideEmitted ==
    /\ JustMapped
    /\ \E ref \in Trips :
          /\ Len(TripAt(ref).passing_times) = 3
          /\ Cardinality(ResolvedPairs(ref)) = 1

----------------------------------------------------------------------------
(* C19 *)

\* the two keys of a walk entry whose ids resolve
WalkKeys(w) ==
    { <<id_map[w.start], id_map[w.end]>>, <<id_map[w.end], id_map[w.start]>> }

\* a step of the walk loop took the entry w from the edge map `before` to the
\* edge map `after` within the frame: a rejected entry changed nothing; an
\* accepted one left every other edge as it was and, on its two keys, kept
\* the timetable and the end points of an edge that was there and made an
\* edge without journeys where none was
WithinFrame(w, before, after) ==
    IF ~WalkAccepted(w) THEN after = before
    ELSE /\ DOMAIN after = DOMAIN before \cup WalkKeys(w)
         /\ \A key \in DOMAIN before \ WalkKeys(w) : after[key] = before[key]
         /\ \A key \in WalkKeys(w) :
               /\ after[key].start_node = key[1]
               /\ after[key].end_node = key[2]
               /\ after[key].timetable = IF key \in DOMAIN before
                                         THEN before[key].timetable
                                         ELSE DefaultTimetable

\* C19: every pass of the walk loop stays within the frame: an entry with an
\* id that id_map does not resolve, or between nodes more than 1 km apart,
\* leaves the edge map as it is; an accepted entry changes only walk_seconds
\* of (start,end) and (end,start) and leaves their journeys untouched
C19_WalkFrame ==
    [][(pc = "overlay" /\ walk_idx' = walk_idx + 1) =>
           WithinFrame(At(walk_seconds, walk_idx), edges, edges')]_vars

\* the walk loop is over: an accepted entry lies on an edge with journeys,
\* and of the rejected entries one has an unknown id and one spans more than
\* 1 km between known nodes
C19_Witness ==
    /\ pc = "overlay"
    /\ walk_idx = Len(walk_seconds)
    /\ \E i \in DOMAIN walk_seconds :
          /\ WalkAccepted(walk_seconds[i])
          /\ \E key \in WalkKeys(walk_seconds[i]) :
                /\ edges[key].timetable.journeys # <<>>
                /\ edges[key].walk_seconds # U16Max
    /\ \E i \in DOMAIN walk_seconds : ~WalkAccepted(walk_seconds[i])

\* a rejected entry with an id that does not resolve was passed
C19_UnresolvedPassed ==
    /\ pc = "overlay"
    /\ walk_idx > 0
    /\ edges # EmptyMap
    /\ \E i \in 1..walk_idx :
          walk_seconds[i].start \notin DOMAIN id_map \/ walk_seconds[i].end \notin DOMAIN id_map

\* a rejected entry between two known nodes more than 1 km apart was passed
C19_FarPassed ==
    /\ pc = "overlay"
    /\ walk_idx > 0
    /\ edges # EmptyMap
    /\ \E i \in 1..walk_idx :
          /\ walk_seconds[i].start \in DOMAIN id_map
          /\ walk_seconds[i].end \in DOMAIN id_map
          /\ ~WalkAccepted(walk_seconds[i])

----------------------------------------------------------------------------
(* C20 *)

\* the square of the distance between two stops of the corpus, in grid cells
StopDistance(a, b) ==
    great_circle_distance(<<StopAt(data, a).long, StopAt(data, a).lat>>,
                          <<StopAt(data, b).long, StopAt(data, b).lat>>)

\* no two stops of one cluster are farther apart than `cells` grid cells of
\* 10 m
ClustersWithin(cells) ==
    \A n \in DOMAIN clusters :
       \A i, k \in DOMAIN clusters[n] :
          StopDistance(clusters[n][i], clusters[n][k]) <= cells * cells

\* C20 as stated: within every cluster any two member stops are at most
\* about 1.41 km apart
C20_ClusterWithin1410m == ClustersWithin(141)

\* C20, amended: within every cluster any two member stops are at most 2 km
\* apart, the diagonal of the extraction square, whose corners lie 1000 m
\* from the seed at bearings 45 and 225 degrees and whose side is about
\* 1.41 km
C20_ClusterWithin2000m == ClustersWithin((2 * distance) \div 10)

\* a cluster with two stops more than 1.41 km apart
C20_Witness ==
    /\ pc = "nodes"
    /\ \E n \in DOMAIN clusters :
          \E i, k \in DOMAIN clusters[n] :
             StopDistance(clusters[n][i], clusters[n][k]) > 141 * 141
    /\ C20_ClusterWithin2000m

----------------------------------------------------------------------------
(* C21 *)

\* the accepted entries among the first n that name the key in either
\* direction
AcceptedOn(key, n) ==
    {i \in 1..n : WalkAccepted(walk_seconds[i]) /\ key \in WalkKeys(walk_seconds[i])}

\* the edges of the run with their keys, from the overlay on: those of the
\* edge map, and those of the graph once it is returned
KeyedEdges ==
    IF pc = "done"
    THEN {<< <<e.start_node, e.end_node>>, e >> : e \in GraphEdges}
    ELSE {<<key, edges[key]>> : key \in DOMAIN edges}

C21_SentinelUnlessSaturated ==
    pc \in {"overlay", "filtered", "remapped", "done"} =>
       \A ke \in KeyedEdges :
          ke[2].walk_seconds = U16Max <=>
             \/ AcceptedOn(ke[1], walk_idx) = {}
             \/ LET last == CHOOSE i \in AcceptedOn(ke[1], walk_idx) :
                               \A m \in AcceptedOn(ke[1], walk_idx) : m <= i
                IN  Truncated(walk_seconds[last].duration) = U16Max

\* a graph is returned with an edge of journeys alone beside an edge an
\* accepted entry of less than 65535 s named
C21_WalkBesideJourneys ==
    /\ pc = "done"
    /\ \E e, f \in GraphEdges :
          /\ e.walk_seconds = U16Max
          /\ e.timetable.journeys # <<>>
          /\ AcceptedOn(<<e.start_node, e.end_node>>, walk_idx) = {}
          /\ f.walk_seconds # U16Max
          /\ AcceptedOn(<<f.start_node, f.end_node>>, walk_idx) # {}

\* a graph is returned with an edge an accepted entry named that has 0xFFFF
C21_SaturatedWalk ==
    /\ pc = "done"
    /\ \E e \in GraphEdges :
          /\ e.walk_seconds = U16Max
          /\ AcceptedOn(<<e.start_node, e.end_node>>, walk_idx) # {}

----------------------------------------------------------------------------
(* C22 *)

\* one pass of the `while` loop took a cluster out of the index: the cluster
\* is not empty, the seed is in it, the index is shorter and the run goes on
ClusterExtracted ==
    /\ pc' = "cluster"
    /\ Len(tree') < Len(tree)
    /\ Len(clusters') = Len(clusters) + 1
    /\ clusters'[Len(clusters')] # <<>>
    /\ Head(tree) \in Range(clusters'[Len(clusters')])

\* C22: Nodes::from_data comes to its end for every corpus: every pass of
\* the per-bucket loop extracts a cluster that is not empty and holds the
\* seed, so the index shrinks, no pass aborts on an empty cluster, and the
\* nodes are returned
C22_NodesTerminate ==
    /\ <>(pc = "nodes")
    /\ [][(pc = "cluster" /\ tree # <<>>) => ClusterExtracted]_vars

\* the nodes are returned after a bucket of three stops gave two clusters,
\* one of them of two stops
C22_Witness ==
    /\ pc = "nodes"
    /\ \E n, m \in DOMAIN clusters :
          /\ n # m
          /\ nodes[n].short_name = nodes[m].short_name
          /\ Len(clusters[n]) = 2
          /\ Len(clusters[m]) = 1

====
